---- MODULE Spec2Model ----
(***************************************************************************)
(* Relationship manager (kunello/relationshipManager): the data            *)
(* consistency and aggregation engine of the MCP handlers.                 *)
(*                                                                         *)
(* The Store holds four whole-document collections (contacts,              *)
(* interactions, summaries, config).  Every handler is a sequence of       *)
(* steps separated by its awaits on the Store: a call reads its            *)
(* collections and decides, then performs its writes one await at a time.  *)
(* Strings are sequences of one-character strings, dates are day numbers   *)
(* (the order of YYYY-MM-DD strings is the order of the days).             *)
(***************************************************************************)
EXTENDS Integers, Sequences, FiniteSets, TLC

VARIABLES contacts, interactions, summaries, config, procs, nextCid, nextIid, cycles

vars == <<contacts, interactions, summaries, config, procs, nextCid, nextIid, cycles>>

store == <<contacts, interactions, summaries, config>>

\* ---------------------------------------------------------------- bounds

MaxContacts == 3

MaxInteractions == 2

\* log_interaction calls of the per-id scheme in one behaviour
MaxPerIdLogs == 1

\* ---------------------------------------------------------------- values

\* null of an optional text or atom
NULL == "null"

\* an id argument the caller left out (ids are numbered from 1)
NoId == 0

\* a text argument the caller left out (falsy, like the empty string)
NoText == <<>>

\* a privateKey the caller left out (falsy, like the empty string)
NoKey == ""

\* ---------------------------------------------------------------- sequence helpers

Range(s) == {s[k] : k \in 1..Len(s)}

Min(a, b) == IF a <= b THEN a ELSE b

Max(a, b) == IF a >= b THEN a ELSE b

Abs(a) == IF a >= 0 THEN a ELSE -a

\* Array.prototype.filter
Filter(s, P(_)) == SelectSeq(s, P)

\* Array.prototype.map
Map(s, F(_)) == [k \in 1..Len(s) |-> F(s[k])]

\* Array.prototype.findIndex (0 when absent, the code's -1)
FindIndex(s, P(_)) ==
  LET hits == {k \in 1..Len(s) : P(s[k])}
  IN IF hits = {} THEN 0 ELSE CHOOSE k \in hits : \A j \in hits : k <= j

\* a removal that always takes the first element
RemoveFirst(s, k) == Tail(s)

\* Array.prototype.splice(idx, 1)
RemoveAt(s, k) == SubSeq(s, 1, k - 1) \o SubSeq(s, k + 1, Len(s))

\* [...new Set(s)]: first occurrences, in order
Dedup(s) ==
  LET D[k \in 0..Len(s)] ==
        IF k = 0 THEN <<>>
        ELSE IF s[k] \in Range(D[k - 1]) THEN D[k - 1] ELSE Append(D[k - 1], s[k])
  IN D[Len(s)]

\* one step of a stable sort: x goes before the first element it precedes
InsertSorted(r, x, Before(_, _)) ==
  LET j == FindIndex(r, LAMBDA y : Before(x, y))
  IN IF j = 0 THEN Append(r, x)
     ELSE SubSeq(r, 1, j - 1) \o <<x>> \o SubSeq(r, j, Len(r))

\* Array.prototype.sort with a comparator (stable)
StableSort(s, Before(_, _)) ==
  LET S[k \in 0..Len(s)] ==
        IF k = 0 THEN <<>> ELSE InsertSorted(S[k - 1], s[k], Before)
  IN S[Len(s)]

RECURSIVE Flatten(_)
Flatten(ss) == IF ss = <<>> THEN <<>> ELSE Head(ss) \o Flatten(Tail(ss))

\* ---------------------------------------------------------------- strings

\* String.prototype.toLowerCase, one character
LowerChar(ch) ==
  CASE ch = "A" -> "a"
    [] ch = "B" -> "b"
    [] ch = "C" -> "c"
    [] OTHER -> ch

ToLowerCase(s) == [k \in 1..Len(s) |-> LowerChar(s[k])]

\* String.prototype.includes
Includes(s, q) ==
  \E k \in 0..(Len(s) - Len(q)) : SubSeq(s, k + 1, k + Len(q)) = q

IsSpace(ch) == ch = " "

\* String.prototype.trim
RECURSIVE Trim(_)
Trim(s) ==
  IF s = <<>> THEN s
  ELSE IF IsSpace(Head(s)) THEN Trim(Tail(s))
  ELSE IF IsSpace(s[Len(s)]) THEN Trim(SubSeq(s, 1, Len(s) - 1))
  ELSE s

\* String.prototype.split(/\s+/): the pieces between maximal runs of
\* whitespace; a leading or trailing run leaves an empty piece
SplitWs(s) ==
  LET S[k \in 0..Len(s)] ==
        IF k = 0 THEN <<<<>>>>
        ELSE LET r == S[k - 1]
                 n == Len(r)
             IN IF IsSpace(s[k])
                THEN (IF k > 1 /\ IsSpace(s[k - 1]) THEN r ELSE Append(r, <<>>))
                ELSE [r EXCEPT ![n] = Append(r[n], s[k])]
  IN S[Len(s)]

\* Array.prototype.join
RECURSIVE Join(_, _)
Join(parts, sep) ==
  IF parts = <<>> THEN <<>>
  ELSE IF Len(parts) = 1 THEN parts[1]
  ELSE parts[1] \o sep \o Join(Tail(parts), sep)

\* the YYYY-MM-DD text of a day number
DateStr(d) == <<"d", CASE d = 0 -> "0" [] d = 1 -> "1" [] d = 2 -> "2" [] d = 3 -> "3"
                       [] d = 4 -> "4" [] d = 5 -> "5" [] d = 6 -> "6" [] d = 7 -> "7"
                       [] d = 8 -> "8" [] OTHER -> "9">>

\* ---------------------------------------------------------------- privacy

isContactPrivate(contact) == contact.private = TRUE

FindContact(cs, id) == FindIndex(cs, LAMBDA c : c.id = id)

isInteractionPrivate(interaction, cs) ==
  \/ interaction.private = TRUE
  \/ \E k \in 1..Len(interaction.contactIds) :
       LET j == FindContact(cs, interaction.contactIds[k])
       IN j # 0 /\ isContactPrivate(cs[j])

\* ---------------------------------------------------------------- summary

RecentCount == 3

RecentChars == 100

TopTopicCount == 5

\* !!v of an optional text
Truthy(v) == v # NULL /\ v # ""

\* the null of an optional date (days are numbered from 1)
NoDate == 0

\* the null of an optional record is the empty sequence, a record r is <<r>>
None == <<>>

Some(r) == <<r>>

\* the opposite order
OlderFirst(a, b) == a.date < b.date

\* b.date.localeCompare(a.date) < 0
NewerFirst(a, b) == a.date > b.date

CountIn(s, x) == Cardinality({k \in 1..Len(s) : s[k] = x})

\* the first topics met, without counting
FirstTopics(contactInteractions) ==
  LET all == Dedup(Flatten(Map(contactInteractions, LAMBDA i : i.topics)))
  IN SubSeq(all, 1, Min(TopTopicCount, Len(all)))

\* topicCounts in insertion order, sorted by descending count, the first five
TopTopics(contactInteractions) ==
  LET all == Flatten(Map(contactInteractions, LAMBDA i : i.topics))
      entries == Map(Dedup(all), LAMBDA t : <<t, CountIn(all, t)>>)
      sorted == StableSort(entries, LAMBDA a, b : a[2] > b[2])
  IN Map(SubSeq(sorted, 1, Min(TopTopicCount, Len(sorted))), LAMBDA e : e[1])

RecentLine(i) == DateStr(i.date) \o <<":", " ">> \o SubSeq(i.summary, 1, Min(RecentChars, Len(i.summary)))

\* the ContactSummary of a contact over its interactions, newest first
SummaryRecord(contact, contactInteractions) ==
  LET n == Len(contactInteractions)
  IN [id |-> contact.id,
      name |-> contact.name,
      interactionCount |-> n,
      lastInteraction |-> IF n > 0 THEN contactInteractions[1].date ELSE NoDate,
      firstInteraction |-> IF n > 0 THEN contactInteractions[n].date ELSE NoDate,
      topTopics |-> TopTopics(contactInteractions),
      locations |-> Dedup(Filter(Map(contactInteractions, LAMBDA i : i.location), Truthy)),
      recentSummary |-> Join(Map(SubSeq(contactInteractions, 1, Min(RecentCount, n)), RecentLine),
                             <<".", " ">>),
      mentionedNextSteps |-> Filter(Map(contactInteractions, LAMBDA i : i.mentionedNextSteps), Truthy)]

\* shared/summary.ts: None for a missing or private contact
buildContactSummary(contactId, cs, is) ==
  LET j == FindContact(cs, contactId)
  IN IF j = 0 THEN None
     ELSE IF isContactPrivate(cs[j]) THEN None
     ELSE Some(SummaryRecord(cs[j],
                 StableSort(Filter(is, LAMBDA i : contactId \in Range(i.contactIds)
                                                  /\ ~isInteractionPrivate(i, cs)),
                            NewerFirst)))

FindSummary(ss, id) == FindIndex(ss, LAMBDA s : s.id = id)

\* a pass that adds the new summary without looking for the old entry
RebuildOneAppending(ss, contactId, cs, is) ==
  LET summary == buildContactSummary(contactId, cs, is)
  IN IF summary = None THEN ss ELSE Append(ss, summary[1])

\* one pass of the loop of rebuildContactSummaries over the summaries it read
\* a rebuild without the privacy branch: the entry of a private contact stays
RebuildOneKeepingPrivate(ss, contactId, cs, is) ==
  LET j == FindContact(cs, contactId)
      idx == FindSummary(ss, contactId)
  IN IF j = 0 THEN ss
     ELSE LET summary == SummaryRecord(cs[j],
                           Filter(is, LAMBDA i : contactId \in Range(i.contactIds)))
          IN IF idx > 0 THEN [ss EXCEPT ![idx] = summary] ELSE Append(ss, summary)

RebuildOne(ss, contactId, cs, is) ==
  LET j == FindContact(cs, contactId)
      idx == FindSummary(ss, contactId)
  IN IF j # 0 /\ isContactPrivate(cs[j])
     THEN (IF idx > 0 THEN RemoveAt(ss, idx) ELSE ss)
     ELSE LET summary == buildContactSummary(contactId, cs, is)
          IN IF summary = None THEN ss
             ELSE IF idx > 0 THEN [ss EXCEPT ![idx] = summary[1]]
             ELSE Append(ss, summary[1])

\* the summaries rebuildContactSummaries writes, from the three collections it read
RECURSIVE RebuildAll(_, _, _, _)
RebuildAll(ss, contactIds, cs, is) ==
  IF contactIds = <<>> THEN ss
  ELSE RebuildAll(RebuildOne(ss, Head(contactIds), cs, is), Tail(contactIds), cs, is)

\* ---------------------------------------------------------------- lookup and views

\* a lookup by the exact stored name only
findContactByExactName(query, cs) == Filter(cs, LAMBDA c : c.name = query)

\* shared/search.ts: every contact whose name or nickname contains the query,
\* compared in lower case, in stored order
findContactByName(query, cs) ==
  LET q == ToLowerCase(query)
  IN Filter(cs, LAMBDA c :
       \/ Includes(ToLowerCase(c.name), q)
       \/ (c.nickname # NoText /\ Includes(ToLowerCase(c.nickname), q)))

\* a validation that splits the name without trimming it
validateUntrimmedName(name) == Len(SplitWs(name)) >= 2

\* shared/validation.ts: name.trim().split(/\s+/) has at least two parts
validateContactName(name) == Len(SplitWs(Trim(name))) >= 2

\* a check that treats a store without a configured key as unlocked
isUnlockedByDefault(privateKey, cfg) ==
  cfg.privateKey = "" \/ privateKey = cfg.privateKey

\* isUnlocked, from the config it read
isUnlocked(privateKey, cfg) ==
  IF privateKey = NoKey THEN FALSE
  ELSE cfg.privateKey # "" /\ privateKey = cfg.privateKey

filterPrivateContacts(cs, unlocked) ==
  IF unlocked THEN cs ELSE Filter(cs, LAMBDA c : ~isContactPrivate(c))

\* a listing filter that looks at the interaction's own flag only
filterFlaggedInteractions(is, cs, unlocked) ==
  IF unlocked THEN is ELSE Filter(is, LAMBDA i : ~i.private)

filterPrivateInteractions(is, cs, unlocked) ==
  IF unlocked THEN is ELSE Filter(is, LAMBDA i : ~isInteractionPrivate(i, cs))

\* the contactIds of redactInteractionParticipants
redactInteractionParticipants(interaction, cs, unlocked) ==
  IF unlocked THEN interaction.contactIds
  ELSE Filter(interaction.contactIds,
              LAMBDA id : LET j == FindContact(cs, id)
                          IN j = 0 \/ ~isContactPrivate(cs[j]))

\* the contact a handler resolves from contactId or name: 0 when none
ResolveContact(args, cs) ==
  IF args.contactId # NoId THEN FindContact(cs, args.contactId)
  ELSE LET m == findContactByName(args.name, cs)
       IN IF m = <<>> THEN 0 ELSE FindContact(cs, m[1].id)

\* ---------------------------------------------------------------- processes

Procs == {1, 2}

NoIo == [rc |-> 0, ri |-> 0, rs |-> 0, wc |-> 0, wi |-> 0, ws |-> 0]

NoRes == [kind |-> "none"]

NoArgs == [none |-> TRUE]

EmptyStore == [cs |-> <<>>, is |-> <<>>, ss |-> <<>>]

\* a handler not running: nothing in memory
IdleProc ==
  [pc |-> "idle", op |-> "none", args |-> NoArgs,
   cs |-> <<>>, is |-> <<>>, ss |-> <<>>,
   ids |-> <<>>, rb |-> EmptyStore, pending |-> {},
   res |-> NoRes, pre |-> EmptyStore, io |-> NoIo]

CurrentStore == [cs |-> contacts, is |-> interactions, ss |-> summaries]

\* a handler that returned without writing
Returned(op, args, res, io) ==
  [IdleProc EXCEPT !.pc = "done", !.op = op, !.args = args, !.res = res,
                   !.pre = CurrentStore, !.io = io]

\* a handler that read, decided and now awaits its first write
Running(op, args, res, io, pc, cs, is, ss, ids) ==
  [IdleProc EXCEPT !.pc = pc, !.op = op, !.args = args, !.res = res,
                   !.pre = CurrentStore, !.io = io,
                   !.cs = cs, !.is = is, !.ss = ss, !.ids = ids]

Reads(rc, ri, rs) == [NoIo EXCEPT !.rc = rc, !.ri = ri, !.rs = rs]

\* ---------------------------------------------------------------- add_contact

\* addContact up to its first write
AddContact(p, a) ==
  /\ procs[p].pc = "idle"
  /\ IF ~validateContactName(a.name)
     THEN /\ procs' = [procs EXCEPT ![p] =
                 Returned("add_contact", a, [kind |-> "error", error |-> "name"], NoIo)]
          /\ UNCHANGED nextCid
     ELSE LET matches == findContactByName(a.name, contacts)
          IN IF matches # <<>> /\ ~a.forceDuplicate
             THEN /\ procs' = [procs EXCEPT ![p] =
                        Returned("add_contact", a,
                                 [kind |-> "warning",
                                  existingContacts |-> Map(matches, LAMBDA c : c.id)],
                                 Reads(1, 0, 0))]
                  /\ UNCHANGED nextCid
             ELSE LET newContact == [id |-> nextCid + 1, name |-> a.name,
                                     nickname |-> a.nickname,
                                     private |-> a.private]
                  IN /\ nextCid < MaxContacts
                     /\ nextCid' = nextCid + 1
                     /\ procs' = [procs EXCEPT ![p] =
                           Running("add_contact", a,
                                   [kind |-> "created", id |-> newContact.id],
                                   Reads(1, 0, 0), "writeContacts",
                                   Append(contacts, newContact), <<>>, <<>>,
                                   <<newContact.id>>)]
  /\ UNCHANGED <<store, nextIid, cycles>>

\* ---------------------------------------------------------------- log_interaction

Today == 2

DayMs == 24 * 60 * 60 * 1000

DuplicateWindowDays == 3

MinWordLength == 3

\* the ids logInteraction resolves, by precedence contactIds > contactNames >
\* contactId > contactName; ok is FALSE where the handler returns an error
ResolveParticipants(a, cs) ==
  IF a.contactIds # <<>>
  THEN IF \E k \in 1..Len(a.contactIds) : FindContact(cs, a.contactIds[k]) = 0
       THEN [ok |-> FALSE, ids |-> <<>>]
       ELSE [ok |-> TRUE, ids |-> a.contactIds]
  ELSE IF a.contactNames # <<>>
  THEN IF \E k \in 1..Len(a.contactNames) : findContactByName(a.contactNames[k], cs) = <<>>
       THEN [ok |-> FALSE, ids |-> <<>>]
       ELSE [ok |-> TRUE,
             ids |-> Map(a.contactNames, LAMBDA n : findContactByName(n, cs)[1].id)]
  ELSE IF a.contactId # NoId
  THEN IF FindContact(cs, a.contactId) = 0
       THEN [ok |-> FALSE, ids |-> <<>>]
       ELSE [ok |-> TRUE, ids |-> <<a.contactId>>]
  ELSE IF a.contactName # NoText
  THEN IF findContactByName(a.contactName, cs) = <<>>
       THEN [ok |-> FALSE, ids |-> <<>>]
       ELSE [ok |-> TRUE, ids |-> <<findContactByName(a.contactName, cs)[1].id>>]
  ELSE [ok |-> FALSE, ids |-> <<>>]

\* the words of a summary the duplicate check looks at, in order
SignificantWords(summary) ==
  Filter(SplitWs(ToLowerCase(summary)), LAMBDA w : Len(w) > MinWordLength)

\* a detector that never finds anything
NoSimilarInteractions(resolvedContactIds, interactionDate, summary, is) == <<>>

\* the similar interactions of the duplicate detection of logInteraction
SimilarInteractions(resolvedContactIds, interactionDate, summary, is) ==
  LET dateMs == interactionDate * DayMs
      threeDays == DuplicateWindowDays * DayMs
      nearby == Filter(is, LAMBDA i :
                  /\ \E k \in 1..Len(i.contactIds) : i.contactIds[k] \in Range(resolvedContactIds)
                  /\ Abs(i.date * DayMs - dateMs) <= threeDays)
      newWords == Range(SignificantWords(summary))
  IN Filter(nearby, LAMBDA i :
       LET sharedContacts == Len(Filter(i.contactIds, LAMBDA id : id \in Range(resolvedContactIds)))
           maxGroupSize == Max(Len(i.contactIds), Len(resolvedContactIds))
           existingWords == SignificantWords(i.summary)
           overlap == Len(Filter(existingWords, LAMBDA w : w \in newWords))
       IN \* participantOverlap >= 0.5 and overlap >= Math.min(3, newWords.size * 0.3)
          /\ 2 * sharedContacts >= maxGroupSize
          /\ 10 * overlap >= Min(30, 3 * Cardinality(newWords)))

\* logInteraction up to its first write
logInteraction(p, a) ==
  /\ LET unlocked == isUnlocked(a.privateKey, config)
         r == ResolveParticipants(a, contacts)
         resolvedContactIds == Dedup(r.ids)
         hasPrivateParticipant ==
           \E k \in 1..Len(resolvedContactIds) :
             LET j == FindContact(contacts, resolvedContactIds[k])
             IN j # 0 /\ isContactPrivate(contacts[j])
         interactionDate == IF a.date = NoDate THEN Today ELSE a.date
         similar == IF a.forceCreate THEN <<>>
                    ELSE SimilarInteractions(resolvedContactIds, interactionDate,
                                             a.summary, interactions)
         newInteraction == [id |-> nextIid + 1, contactIds |-> resolvedContactIds,
                            date |-> interactionDate, summary |-> a.summary,
                            topics |-> a.topics,
                            mentionedNextSteps |-> a.mentionedNextSteps,
                            location |-> a.location, private |-> a.private]
         io == Reads(1, 1, 0)
     IN IF ~r.ok
        THEN /\ procs' = [procs EXCEPT ![p] =
                   Returned("log_interaction", a, [kind |-> "error", error |-> "not found"], io)]
             /\ UNCHANGED nextIid
        ELSE IF hasPrivateParticipant /\ ~unlocked
        THEN /\ procs' = [procs EXCEPT ![p] =
                   Returned("log_interaction", a, [kind |-> "error", error |-> "private"], io)]
             /\ UNCHANGED nextIid
        ELSE IF similar # <<>>
        THEN /\ procs' = [procs EXCEPT ![p] =
                   Returned("log_interaction", a,
                            [kind |-> "warning",
                             similarInteractions |-> Map(similar, LAMBDA i : i.id)], io)]
             /\ UNCHANGED nextIid
        ELSE /\ nextIid < MaxInteractions
             /\ nextIid' = nextIid + 1
             /\ procs' = [procs EXCEPT ![p] =
                   Running("log_interaction", a,
                           [kind |-> "logged", id |-> newInteraction.id,
                            participantCount |-> Len(resolvedContactIds)],
                           io, "writeInteractions",
                           contacts, Append(interactions, newInteraction), <<>>,
                           resolvedContactIds)]
  /\ UNCHANGED <<store, nextCid, cycles>>

\* a log_interaction call of a caller that has no call in flight
LogInteraction(p, a) ==
  /\ procs[p].pc = "idle"
  /\ logInteraction(p, a)

\* ---------------------------------------------------------------- update_contact

AllowedTopLevel == {"name", "nickname", "company", "role", "howWeMet", "tags", "notes",
                    "expertise", "private"}

AllowedContactInfo == {"email", "phone", "linkedin"}

\* record.updatedAt = new Date().toISOString(); records of the model that leave
\* the timestamps out stay without them
Touched(record) ==
  IF "updatedAt" \in DOMAIN record THEN [record EXCEPT !.updatedAt = Today] ELSE record

\* the loop assigning every key of args.updates
ApplyEveryContactUpdate(contact, updates) ==
  Touched([f \in DOMAIN contact \cup DOMAIN updates |->
             IF f \in DOMAIN updates THEN updates[f] ELSE contact[f]])

\* the loop over Object.entries(args.updates): allow-listed keys are assigned
\* to the contact, contact-info keys to contact.contactInfo, then updatedAt
ApplyContactUpdates(contact, updates) ==
  LET top == DOMAIN updates \cap AllowedTopLevel
      info == (DOMAIN updates \ AllowedTopLevel) \cap AllowedContactInfo
      merged == [f \in DOMAIN contact \cup top |->
                   IF f \in top THEN updates[f] ELSE contact[f]]
  IN Touched(IF info = {} \/ "contactInfo" \notin DOMAIN merged THEN merged
             ELSE [merged EXCEPT !.contactInfo =
                     [g \in DOMAIN merged.contactInfo \cup info |->
                        IF g \in info THEN updates[g] ELSE merged.contactInfo[g]]])

\* updateContact up to its first write
UpdateContact(p, a) ==
  /\ procs[p].pc = "idle"
  /\ LET unlocked == isUnlocked(a.privateKey, config)
         j == ResolveContact(a, contacts)
         io == Reads(1, 0, 0)
     IN IF a.contactId = NoId /\ a.name = NoText
        THEN procs' = [procs EXCEPT ![p] =
               Returned("update_contact", a, [kind |-> "error", error |-> "provide"], io)]
        ELSE IF j = 0 \/ (isContactPrivate(contacts[j]) /\ ~unlocked)
        THEN procs' = [procs EXCEPT ![p] =
               Returned("update_contact", a, [kind |-> "error", error |-> "not found"], io)]
        ELSE LET contact == ApplyContactUpdates(contacts[j], a.updates)
             IN procs' = [procs EXCEPT ![p] =
                  Running("update_contact", a, [kind |-> "updated", id |-> contact.id],
                          io, "writeContacts",
                          [contacts EXCEPT ![j] = contact], <<>>, <<>>, <<contact.id>>)]
  /\ UNCHANGED <<store, nextCid, nextIid, cycles>>

\* ---------------------------------------------------------------- edit_interaction

AllowedFields == {"summary", "date", "type", "topics", "mentionedNextSteps", "location",
                  "contactIds", "private"}

\* the loop over Object.entries(args.updates): allow-listed keys are assigned,
\* then updatedAt
ApplyInteractionUpdates(interaction, updates) ==
  LET top == DOMAIN updates \cap AllowedFields
  IN Touched([f \in DOMAIN interaction \cup top |->
                IF f \in top THEN updates[f] ELSE interaction[f]])

FindInteraction(is, id) == FindIndex(is, LAMBDA i : i.id = id)

\* a rebuild set of the participants after the edit only
NewContactIdsOnly(oldContactIds, newContactIds) == Dedup(newContactIds)

\* allContactIds: the participants before and after the edit
AllContactIds(oldContactIds, newContactIds) == Dedup(oldContactIds \o newContactIds)

\* editInteraction up to its first write
EditInteraction(p, a) ==
  /\ procs[p].pc = "idle"
  /\ LET unlocked == isUnlocked(a.privateKey, config)
         k == FindInteraction(interactions, a.interactionId)
         io == Reads(1, 1, 0)
     IN IF k = 0 \/ (isInteractionPrivate(interactions[k], contacts) /\ ~unlocked)
        THEN procs' = [procs EXCEPT ![p] =
               Returned("edit_interaction", a, [kind |-> "error", error |-> "not found"], io)]
        ELSE LET oldContactIds == interactions[k].contactIds
                 interaction == ApplyInteractionUpdates(interactions[k], a.updates)
                 allContactIds == AllContactIds(oldContactIds, interaction.contactIds)
             IN procs' = [procs EXCEPT ![p] =
                  Running("edit_interaction", a, [kind |-> "updated", id |-> interaction.id],
                          io, "writeInteractions",
                          contacts, [interactions EXCEPT ![k] = interaction], <<>>,
                          allContactIds)]
  /\ UNCHANGED <<store, nextCid, nextIid, cycles>>

\* ---------------------------------------------------------------- delete_interaction

\* deleteInteraction up to its first write
DeleteInteraction(p, a) ==
  /\ procs[p].pc = "idle"
  /\ LET unlocked == isUnlocked(a.privateKey, config)
         idx == FindInteraction(interactions, a.interactionId)
         io == Reads(1, 1, 0)
     IN IF idx = 0 \/ (isInteractionPrivate(interactions[idx], contacts) /\ ~unlocked)
        THEN procs' = [procs EXCEPT ![p] =
               Returned("delete_interaction", a, [kind |-> "error", error |-> "not found"], io)]
        ELSE LET removed == interactions[idx]
             IN procs' = [procs EXCEPT ![p] =
                  Running("delete_interaction", a, [kind |-> "deleted", id |-> removed.id],
                          io, "writeInteractions",
                          contacts, RemoveAt(interactions, idx), <<>>, removed.contactIds)]
  /\ UNCHANGED <<store, nextCid, nextIid, cycles>>

\* ---------------------------------------------------------------- delete_contact

\* the interactions deleteContact writes: solo ones dropped, the contact
\* taken out of the others
\* a cascade that deletes the solo interactions and leaves the group ones as they are
CascadeSoloOnly(is, contactId) ==
  Filter(is, LAMBDA i : ~(contactId \in Range(i.contactIds) /\ Len(i.contactIds) = 1))

\* a cascade that edits the group interactions and keeps the solo ones
CascadeGroupOnly(is, contactId) ==
  Map(is, LAMBDA i :
    IF contactId \in Range(i.contactIds) /\ Len(i.contactIds) > 1
    THEN [i EXCEPT !.contactIds = Filter(i.contactIds, LAMBDA id : id # contactId)]
    ELSE i)

CascadeInteractions(is, contactId) ==
  LET filtered == Filter(is, LAMBDA i : ~(contactId \in Range(i.contactIds)
                                          /\ Len(i.contactIds) = 1))
  IN Map(filtered, LAMBDA i :
       IF contactId \in Range(i.contactIds)
       THEN [i EXCEPT !.contactIds = Filter(i.contactIds, LAMBDA id : id # contactId)]
       ELSE i)

\* affectedGroupContactIds, made unique
UniqueAffected(is, contactId) ==
  LET filtered == Filter(is, LAMBDA i : contactId \in Range(i.contactIds)
                                        /\ Len(i.contactIds) # 1)
  IN Dedup(Flatten(Map(filtered, LAMBDA i :
                     Filter(i.contactIds, LAMBDA id : id # contactId))))

\* the interactions a contact takes part in, and their two categories
RelatedInteractions(is, contactId) == Filter(is, LAMBDA i : contactId \in Range(i.contactIds))

\* a solo category that also takes the interactions of two
SoloOrPairInteractions(related) == Filter(related, LAMBDA i : Len(i.contactIds) <= 2)

SoloInteractions(related) == Filter(related, LAMBDA i : Len(i.contactIds) = 1)

GroupInteractions(related) == Filter(related, LAMBDA i : Len(i.contactIds) > 1)

\* deleteContact up to its first write
DeleteContact(p, a) ==
  /\ procs[p].pc = "idle"
  /\ LET unlocked == isUnlocked(a.privateKey, config)
         j == ResolveContact(a, contacts)
         io == Reads(1, 1, 1)
     IN IF a.contactId = NoId /\ a.name = NoText
        THEN procs' = [procs EXCEPT ![p] =
               Returned("delete_contact", a, [kind |-> "error", error |-> "provide"], io)]
        ELSE IF j = 0 \/ (isContactPrivate(contacts[j]) /\ ~unlocked)
        THEN procs' = [procs EXCEPT ![p] =
               Returned("delete_contact", a, [kind |-> "error", error |-> "not found"], io)]
        ELSE
          LET contact == contacts[j]
              relatedInteractions == RelatedInteractions(interactions, contact.id)
              soloInteractions == SoloInteractions(relatedInteractions)
              groupInteractions == GroupInteractions(relatedInteractions)
              sIdx == FindSummary(summaries, contact.id)
              ss == IF sIdx > 0 THEN RemoveAt(summaries, sIdx) ELSE summaries
          IN IF ~a.deleteInteractions /\ relatedInteractions # <<>>
             THEN procs' = [procs EXCEPT ![p] =
                    Returned("delete_contact", a,
                             [kind |-> "warning", id |-> contact.id,
                              interactionCount |-> Len(relatedInteractions),
                              soloInteractionCount |-> Len(soloInteractions),
                              groupInteractionCount |-> Len(groupInteractions)], io)]
             ELSE IF relatedInteractions # <<>>
             THEN procs' = [procs EXCEPT ![p] =
                    [Running("delete_contact", a,
                             [kind |-> "deleted", id |-> contact.id,
                              deletedInteractionCount |-> Len(soloInteractions),
                              updatedGroupInteractionCount |-> Len(groupInteractions)],
                             io, "writeInteractions",
                             RemoveAt(contacts, j),
                             CascadeInteractions(interactions, contact.id), ss,
                             UniqueAffected(interactions, contact.id))
                      EXCEPT !.pending = {"contacts", "summaries"}]]
             ELSE procs' = [procs EXCEPT ![p] =
                    [Running("delete_contact", a,
                             [kind |-> "deleted", id |-> contact.id,
                              deletedInteractionCount |-> 0,
                              updatedGroupInteractionCount |-> 0],
                             io, "finalWrite", RemoveAt(contacts, j), interactions, ss, <<>>)
                      EXCEPT !.pending = {"contacts", "summaries"}]]
  /\ UNCHANGED <<store, nextCid, nextIid, cycles>>

\* ---------------------------------------------------------------- the awaited writes

Bump(io, f) == [io EXCEPT ![f] = @ + 1]

\* await writeContacts(contacts) of addContact and updateContact
WriteContacts(p) ==
  /\ procs[p].pc = "writeContacts"
  /\ contacts' = procs[p].cs
  /\ procs' = [procs EXCEPT ![p].pc = "rebuildRead", ![p].io = Bump(@, "wc")]
  /\ UNCHANGED <<interactions, summaries, config, nextCid, nextIid, cycles>>

\* await writeInteractions(...) of the interaction handlers and of deleteContact,
\* then rebuildContactSummaries, which returns at once for no ids
WriteInteractions(p) ==
  /\ procs[p].pc = "writeInteractions"
  /\ interactions' = procs[p].is
  /\ procs' = [procs EXCEPT
       ![p].pc = IF procs[p].ids # <<>> THEN "rebuildRead"
                 ELSE IF procs[p].op = "delete_contact" THEN "finalWrite"
                 ELSE "done",
       ![p].io = Bump(@, "wi")]
  /\ UNCHANGED <<contacts, summaries, config, nextCid, nextIid, cycles>>

\* rebuildContactSummaries: the one read of contacts, interactions and summaries
RebuildRead(p) ==
  /\ procs[p].pc = "rebuildRead"
  /\ procs' = [procs EXCEPT ![p].pc = "rebuildWrite", ![p].rb = CurrentStore,
                            ![p].io = Bump(Bump(Bump(@, "rc"), "ri"), "rs")]
  /\ UNCHANGED <<store, nextCid, nextIid, cycles>>

\* rebuildContactSummaries: the loop over the ids and the one write of summaries
RebuildWrite(p) ==
  /\ procs[p].pc = "rebuildWrite"
  /\ summaries' = RebuildAll(procs[p].rb.ss, procs[p].ids, procs[p].rb.cs, procs[p].rb.is)
  /\ procs' = [procs EXCEPT
       ![p].pc = IF procs[p].op = "delete_contact" THEN "finalWrite" ELSE "done",
       ![p].io = Bump(@, "ws")]
  /\ UNCHANGED <<contacts, interactions, config, nextCid, nextIid, cycles>>

AfterFinal(pr, what) ==
  [pr EXCEPT !.pending = @ \ {what},
             !.pc = IF pr.pending \ {what} = {} THEN "done" ELSE @]

\* deleteContact: Promise.all([writeContacts, writeSummaries]), the contacts write
FinalWriteContacts(p) ==
  /\ procs[p].pc = "finalWrite"
  /\ "contacts" \in procs[p].pending
  /\ contacts' = procs[p].cs
  /\ procs' = [procs EXCEPT ![p] = AfterFinal([procs[p] EXCEPT !.io = Bump(@, "wc")], "contacts")]
  /\ UNCHANGED <<interactions, summaries, config, nextCid, nextIid, cycles>>

\* deleteContact: Promise.all([writeContacts, writeSummaries]), the summaries write
\* of the summaries read when the handler started
FinalWriteSummaries(p) ==
  /\ procs[p].pc = "finalWrite"
  /\ "summaries" \in procs[p].pending
  /\ summaries' = procs[p].ss
  /\ procs' = [procs EXCEPT ![p] = AfterFinal([procs[p] EXCEPT !.io = Bump(@, "ws")], "summaries")]
  /\ UNCHANGED <<contacts, interactions, config, nextCid, nextIid, cycles>>

\* the handler returns its result
Return(p) ==
  /\ procs[p].pc = "done"
  /\ procs' = [procs EXCEPT ![p] = IdleProc]
  /\ UNCHANGED <<store, nextCid, nextIid, cycles>>

\* ---------------------------------------------------------------- manage_privacy

\* a check that accepts any currentKey
AnyCurrentKey(currentKey, cfg) == FALSE

\* the guard of set_key: a key exists and currentKey is not that key
IncorrectCurrentKey(currentKey, cfg) ==
  cfg.privateKey # "" /\ currentKey # cfg.privateKey

\* managePrivacy, operation set_key
SetKey(p, a) ==
  /\ procs[p].pc = "idle"
  /\ IF a.newKey = NoKey
     THEN /\ procs' = [procs EXCEPT ![p] =
                 Returned("manage_privacy", a, [kind |-> "error", error |-> "newKey"], NoIo)]
          /\ UNCHANGED config
     ELSE IF IncorrectCurrentKey(a.currentKey, config)
     THEN /\ procs' = [procs EXCEPT ![p] =
                 Returned("manage_privacy", a, [kind |-> "error", error |-> "currentKey"], NoIo)]
          /\ UNCHANGED config
     ELSE /\ config' = [config EXCEPT !.privateKey = a.newKey]
          /\ procs' = [procs EXCEPT ![p] =
                 Returned("manage_privacy", a, [kind |-> "success"], NoIo)]
  /\ UNCHANGED <<contacts, interactions, summaries, nextCid, nextIid, cycles>>

\* ---------------------------------------------------------------- listings

DefaultSearchLimit == 20

DefaultRecentLimit == 20

DefaultNextStepsLimit == 50

\* an absent limit argument
NoLimit == -1

Slice(s, n) == SubSeq(s, 1, Min(n, Len(s)))

\* searchContacts (query against the name; the ids of the contacts returned)
SearchContacts(p, a) ==
  /\ procs[p].pc = "idle"
  /\ LET unlocked == isUnlocked(a.privateKey, config)
         visible == filterPrivateContacts(contacts, unlocked)
         results == IF a.query = NoText THEN visible
                    ELSE Filter(visible, LAMBDA c :
                           \/ Includes(ToLowerCase(c.name), ToLowerCase(a.query))
                           \/ (c.nickname # NoText
                                /\ Includes(ToLowerCase(c.nickname), ToLowerCase(a.query))))
         limit == IF a.limit = NoLimit THEN DefaultSearchLimit ELSE a.limit
     IN procs' = [procs EXCEPT ![p] =
          Returned("search_contacts", a,
                   [kind |-> "contacts",
                    contacts |-> Map(Slice(results, limit), LAMBDA c : c.id)],
                   Reads(1, 0, 0))]
  /\ UNCHANGED <<store, nextCid, nextIid, cycles>>

\* what a listing returns of an interaction: its id and its redacted participants
Enriched(i, cs, unlocked) ==
  [id |-> i.id, contactIds |-> redactInteractionParticipants(i, cs, unlocked)]

\* the result of getRecentInteractions, from what it read
RecentResult(a, cs, is, cfg) ==
  LET unlocked == isUnlocked(a.privateKey, cfg)
      visible == filterPrivateInteractions(is, cs, unlocked)
      j == IF a.contactId # NoId THEN FindContact(cs, a.contactId)
           ELSE IF a.contactName # NoText
           THEN ResolveContact([contactId |-> NoId, name |-> a.contactName], cs)
           ELSE 0
      hidden == \/ /\ a.contactId # NoId
                   /\ j # 0 /\ isContactPrivate(cs[j]) /\ ~unlocked
                \/ /\ a.contactId = NoId /\ a.contactName # NoText
                   /\ (j = 0 \/ (isContactPrivate(cs[j]) /\ ~unlocked))
      who == IF a.contactId # NoId THEN a.contactId
             ELSE IF a.contactName # NoText THEN cs[j].id
             ELSE NoId
      byContact == IF who = NoId THEN visible
                   ELSE Filter(visible, LAMBDA i : who \in Range(i.contactIds))
      since == IF a.since = NoDate THEN byContact
               ELSE Filter(byContact, LAMBDA i : i.date >= a.since)
      sorted == StableSort(since, NewerFirst)
      limit == IF a.limit = NoLimit THEN DefaultRecentLimit ELSE a.limit
  IN IF hidden THEN [kind |-> "error", error |-> "not found"]
     ELSE [kind |-> "interactions",
           interactions |-> Map(Slice(sorted, limit), LAMBDA i : Enriched(i, cs, unlocked))]

\* getRecentInteractions
GetRecentInteractions(p, a) ==
  /\ procs[p].pc = "idle"
  /\ procs' = [procs EXCEPT ![p] =
       Returned("get_recent_interactions", a,
                RecentResult(a, contacts, interactions, config), Reads(1, 1, 0))]
  /\ UNCHANGED <<store, nextCid, nextIid, cycles>>

\* the result of getContact, from what it read: the contact and its visible
\* interactions, newest first, with redacted participants
ContactResult(a, cs, is, cfg) ==
  LET unlocked == isUnlocked(a.privateKey, cfg)
      j == ResolveContact(a, cs)
  IN IF a.contactId = NoId /\ a.name = NoText
     THEN [kind |-> "error", error |-> "provide"]
     ELSE IF j = 0 \/ (isContactPrivate(cs[j]) /\ ~unlocked)
     THEN [kind |-> "error", error |-> "not found"]
     ELSE LET visibleInteractions ==
                filterPrivateInteractions(
                  Filter(is, LAMBDA i : cs[j].id \in Range(i.contactIds)), cs, unlocked)
              contactInteractions ==
                Map(StableSort(visibleInteractions, NewerFirst),
                    LAMBDA i : Enriched(i, cs, unlocked))
          IN [kind |-> "contact", id |-> cs[j].id,
              interactions |-> contactInteractions,
              interactionCount |-> Len(contactInteractions)]

\* getContact
GetContact(p, a) ==
  /\ procs[p].pc = "idle"
  /\ procs' = [procs EXCEPT ![p] =
       Returned("get_contact", a,
                ContactResult(a, contacts, interactions, config), Reads(1, 1, 0))]
  /\ UNCHANGED <<store, nextCid, nextIid, cycles>>

\* getMentionedNextSteps
GetMentionedNextSteps(p, a) ==
  /\ procs[p].pc = "idle"
  /\ LET unlocked == isUnlocked(a.privateKey, config)
         visible == filterPrivateInteractions(interactions, contacts, unlocked)
         withNextSteps == StableSort(Filter(visible, LAMBDA i : Truthy(i.mentionedNextSteps)),
                                     NewerFirst)
         limit == IF a.limit = NoLimit THEN DefaultNextStepsLimit ELSE a.limit
     IN procs' = [procs EXCEPT ![p] =
          Returned("get_mentioned_next_steps", a,
                   [kind |-> "interactions",
                    interactions |-> Map(Slice(withNextSteps, limit),
                                         LAMBDA i : Enriched(i, contacts, unlocked))],
                   Reads(1, 1, 0))]
  /\ UNCHANGED <<store, nextCid, nextIid, cycles>>

\* ---------------------------------------------------------------- inputs

NameAB == <<"A", " ", "b">>

OneWordName == <<"A">>

TextGolf == <<"g", "o", "l", "f">>

Keys == {NoKey, "k1"}

WrongKey == "k2"

ContactIdsOf == 1..MaxContacts

InteractionIdsOf == 1..MaxInteractions

\* the members of a set of ids in increasing order
RECURSIVE Ascending(_)
Ascending(S) ==
  IF S = {} THEN <<>>
  ELSE LET m == CHOOSE x \in S : \A y \in S : x <= y
       IN <<m>> \o Ascending(S \ {m})

IdLists == {Ascending(S) : S \in SUBSET ContactIdsOf \ {{}}}

AddArgs ==
  [name : {NameAB}, nickname : {NoText}, private : BOOLEAN, forceDuplicate : BOOLEAN]
  \cup {[name |-> OneWordName, nickname |-> NoText, private |-> FALSE,
         forceDuplicate |-> FALSE]}

UpdateArgs ==
  [contactId : ContactIdsOf, name : {NoText},
   updates : {[private |-> TRUE], [private |-> FALSE]},
   privateKey : Keys]

LogArgs ==
  [contactIds : IdLists, contactNames : {<<>>}, contactId : {NoId}, contactName : {NoText},
   date : {1}, summary : {TextGolf}, topics : {<<"golf">>},
   mentionedNextSteps : {"intro"}, location : {NULL},
   forceCreate : BOOLEAN, private : BOOLEAN, privateKey : Keys]

EditArgs ==
  [interactionId : InteractionIdsOf,
   updates : {[contactIds |-> <<2>>], [private |-> TRUE], [private |-> FALSE]},
   privateKey : Keys]

DeleteInteractionArgs == [interactionId : InteractionIdsOf, privateKey : Keys]

DeleteContactArgs ==
  [contactId : ContactIdsOf, name : {NoText}, deleteInteractions : BOOLEAN, privateKey : Keys]

SetKeyArgs == [currentKey : {NoKey}, newKey : {"k1"}]

LockedKeys == {NoKey, WrongKey}

SearchArgs == [query : {NoText, <<"b">>}, limit : {NoLimit}, privateKey : LockedKeys \cup {"k1"}]

RecentArgs ==
  [contactId : {NoId, 1}, contactName : {NoText}, since : {NoDate}, limit : {NoLimit},
   privateKey : LockedKeys \cup {"k1"}]

NextStepsArgs == [limit : {NoLimit}, privateKey : LockedKeys \cup {"k1"}]

GetContactArgs == [contactId : ContactIdsOf, name : {NoText}, privateKey : LockedKeys \cup {"k1"}]

\* ---------------------------------------------------------------- specification

Init ==
  /\ contacts = <<>>
  /\ interactions = <<>>
  /\ summaries = <<>>
  /\ config = [privateKey |-> ""]
  /\ procs = [p \in Procs |-> IdleProc]
  /\ nextCid = 0
  /\ nextIid = 0
  /\ cycles = <<>>

\* one caller: a call starts when the previous one has returned
Next ==
  \/ \E a \in AddArgs : AddContact(1, a)
  \/ \E a \in UpdateArgs : UpdateContact(1, a)
  \/ \E a \in LogArgs : LogInteraction(1, a)
  \/ \E a \in EditArgs : EditInteraction(1, a)
  \/ \E a \in DeleteInteractionArgs : DeleteInteraction(1, a)
  \/ \E a \in DeleteContactArgs : DeleteContact(1, a)
  \/ \E a \in SetKeyArgs : SetKey(1, a)
  \/ \E a \in SearchArgs : SearchContacts(1, a)
  \/ \E a \in RecentArgs : GetRecentInteractions(1, a)
  \/ \E a \in NextStepsArgs : GetMentionedNextSteps(1, a)
  \/ \E a \in GetContactArgs : GetContact(1, a)
  \/ WriteContacts(1)
  \/ WriteInteractions(1)
  \/ RebuildRead(1)
  \/ RebuildWrite(1)
  \/ FinalWriteContacts(1)
  \/ FinalWriteSummaries(1)
  \/ Return(1)

Spec == Init /\ [][Next]_vars

\* ---------------------------------------------------------------- claims, one caller

\* the call of the one caller has returned its result
Done(op) == procs[1].pc = "done" /\ procs[1].op = op

Quiet == procs[1].pc \in {"idle", "done"}

ContactIdsIn(cs) == {cs[k].id : k \in 1..Len(cs)}

PublicIdsIn(cs) == {cs[k].id : k \in {j \in 1..Len(cs) : ~isContactPrivate(cs[j])}}

SummaryIdsIn(ss) == {ss[k].id : k \in 1..Len(ss)}

EntriesOf(ss, id) == {k \in 1..Len(ss) : ss[k].id = id}

\* C8: after any sequence of completed calls, the summaries collection has an
\* entry for an id if and only if that contact exists and is not private
SummaryIffPublic ==
  Quiet => SummaryIdsIn(summaries) = PublicIdsIn(contacts)

\* C8 witness: a contact with interactions was switched to private by a
\* completed update_contact, and another contact still has its entry
SummaryIffPublicWitness ==
  /\ Done("update_contact")
  /\ procs[1].res.kind = "updated"
  /\ procs[1].res.id \in SummaryIdsIn(procs[1].pre.ss)
  /\ procs[1].res.id \notin PublicIdsIn(contacts)
  /\ RelatedInteractions(interactions, procs[1].res.id) # <<>>
  /\ SummaryIdsIn(summaries) # {}

\* an entry of the summaries collection is the from-scratch recomputation
Fresh(s, cs, is) == buildContactSummary(s.id, cs, is) = Some(s)

\* C9: after any sequence of completed calls, every stored summary entry equals
\* buildContactSummary evaluated on the contacts and interactions now stored
SummariesAreRecomputation ==
  Quiet => \A k \in 1..Len(summaries) : Fresh(summaries[k], contacts, interactions)

\* the target of a delete_contact call that was resolved
Target == procs[1].res.id

PreRelated == RelatedInteractions(procs[1].pre.is, Target)

DistinctParticipants(i) == Cardinality(Range(i.contactIds))

NoWrites(io) == io.wc = 0 /\ io.wi = 0 /\ io.ws = 0

\* C4: delete_contact without the cascade flag on a referenced contact returns
\* a warning, writes nothing, and reports the numbers of referencing interactions
\* with exactly one and with more than one participant
WarningWithoutMutation ==
  (Done("delete_contact") /\ procs[1].res.kind # "error"
     /\ ~procs[1].args.deleteInteractions /\ PreRelated # <<>>)
  => /\ procs[1].res.kind = "warning"
     /\ CurrentStore = procs[1].pre
     /\ NoWrites(procs[1].io)
     /\ procs[1].res.soloInteractionCount =
          Cardinality({k \in 1..Len(PreRelated) : DistinctParticipants(PreRelated[k]) = 1})
     /\ procs[1].res.groupInteractionCount =
          Cardinality({k \in 1..Len(PreRelated) : DistinctParticipants(PreRelated[k]) > 1})
     /\ procs[1].res.soloInteractionCount + procs[1].res.groupInteractionCount
          = procs[1].res.interactionCount
     /\ procs[1].res.interactionCount = Len(PreRelated)

\* C4 witness: the warning was returned for a contact with a solo and a group interaction
WarningWithoutMutationWitness ==
  /\ Done("delete_contact")
  /\ procs[1].res.kind = "warning"
  /\ procs[1].res.soloInteractionCount = 1
  /\ procs[1].res.groupInteractionCount = 1

Cascaded ==
  /\ Done("delete_contact")
  /\ procs[1].res.kind = "deleted"
  /\ procs[1].args.deleteInteractions

StoredInteraction(id) == {k \in 1..Len(interactions) : interactions[k].id = id}

Remaining ==
  {id \in ContactIdsIn(contacts) :
     \E k \in 1..Len(procs[1].pre.is) :
       /\ Target \in Range(procs[1].pre.is[k].contactIds)
       /\ id \in Range(procs[1].pre.is[k].contactIds)}

\* C6: after delete_contact(X, cascade) every contact that remained in an edited
\* group interaction has the summary buildContactSummary gives on the
\* post-delete contacts and interactions
CascadeRebuildPersisted ==
  Cascaded =>
    \A id \in Remaining :
      LET want == buildContactSummary(id, contacts, interactions)
          have == EntriesOf(summaries, id)
      IN IF want = None THEN have = {}
         ELSE have # {} /\ \A k \in have : summaries[k] = want[1]

\* a log_interaction call that stored an interaction with N >= 2 participants,
\* all of them public
LoggedGroup ==
  /\ Done("log_interaction")
  /\ procs[1].res.kind = "logged"
  /\ procs[1].res.participantCount >= 2
  /\ Range(procs[1].ids) \subseteq PublicIdsIn(procs[1].pre.cs)

CountBefore(id) ==
  LET e == EntriesOf(procs[1].pre.ss, id)
  IN IF e = {} THEN 0 ELSE procs[1].pre.ss[CHOOSE k \in e : TRUE].interactionCount

\* the rebuild of a log_interaction is one read of the three collections and
\* one write of the summaries (the handler itself read contacts and
\* interactions once before)
OneReadOneWrite ==
  /\ procs[1].io.rs = 1
  /\ procs[1].io.ws = 1
  /\ procs[1].io.rc = 2
  /\ procs[1].io.ri = 2

OneEntryPerParticipant ==
  \A id \in Range(procs[1].ids) : Cardinality(EntriesOf(summaries, id)) = 1

NonParticipantsUnchanged ==
  /\ \A k \in 1..Len(procs[1].pre.ss) :
       procs[1].pre.ss[k].id \notin Range(procs[1].ids)
         => \E j \in 1..Len(summaries) : summaries[j] = procs[1].pre.ss[k]
  /\ SummaryIdsIn(summaries) = SummaryIdsIn(procs[1].pre.ss) \cup Range(procs[1].ids)

\* C1 as stated: one read and one write, one entry per participant, each with an
\* interactionCount one higher than its entry had before (interaction not
\* private), non-participants unchanged
BatchedLogCountsOneHigher ==
  LoggedGroup =>
    /\ OneReadOneWrite
    /\ OneEntryPerParticipant
    /\ NonParticipantsUnchanged
    /\ ~procs[1].args.private =>
         \A id \in Range(procs[1].ids) : \A k \in EntriesOf(summaries, id) :
           summaries[k].interactionCount = CountBefore(id) + 1

\* the result of a listing call made by a locked caller
LockedResult(op) ==
  /\ Done(op)
  /\ ~isUnlocked(procs[1].args.privateKey, config)
  /\ procs[1].res.kind # "error"

HiddenInteraction(id) ==
  \E k \in 1..Len(interactions) :
    /\ interactions[k].id = id
    /\ \/ interactions[k].private
       \/ \E c \in Range(interactions[k].contactIds) :
            c \in ContactIdsIn(contacts) \ PublicIdsIn(contacts)

PerIdSummary(contactId, cs, is) ==
  LET j == FindContact(cs, contactId)
  IN IF j = 0 THEN None
     ELSE Some(SummaryRecord(cs[j],
                 StableSort(Filter(is, LAMBDA i : contactId \in Range(i.contactIds)),
                            NewerFirst)))

\* "Replace or insert" into the summaries the cycle read; the summaries it writes
\* a write that merges the entry into the collection as stored at the time of the write
PerIdMergedIntoStored(ss, summary) ==
  LET idx == FindSummary(summaries, summary.id)
  IN IF idx > 0 THEN [summaries EXCEPT ![idx] = summary] ELSE Append(summaries, summary)

PerIdWritten(ss, summary) ==
  LET idx == FindSummary(ss, summary.id)
  IN IF idx > 0 THEN [ss EXCEPT ![idx] = summary] ELSE Append(ss, summary)

\* the superseded logInteraction up to its first write
LogInteractionPerId(p, a) ==
  /\ procs[p].pc = "idle"
  /\ cycles = <<>>
  /\ LET r == ResolveParticipants(a, contacts)
         resolvedContactIds == Dedup(r.ids)
         interactionDate == IF a.date = NoDate THEN Today ELSE a.date
         similar == IF a.forceCreate THEN <<>>
                    ELSE SimilarInteractions(resolvedContactIds, interactionDate,
                                             a.summary, interactions)
         newInteraction == [id |-> nextIid + 1, contactIds |-> resolvedContactIds,
                            date |-> interactionDate, summary |-> a.summary,
                            topics |-> a.topics,
                            mentionedNextSteps |-> a.mentionedNextSteps,
                            location |-> a.location, private |-> FALSE]
         io == Reads(1, 1, 0)
     IN IF ~r.ok
        THEN /\ procs' = [procs EXCEPT ![p] =
                   Returned("log_interaction_per_id", a,
                            [kind |-> "error", error |-> "not found"], io)]
             /\ UNCHANGED nextIid
        ELSE IF similar # <<>>
        THEN /\ procs' = [procs EXCEPT ![p] =
                   Returned("log_interaction_per_id", a,
                            [kind |-> "warning",
                             similarInteractions |-> Map(similar, LAMBDA i : i.id)], io)]
             /\ UNCHANGED nextIid
        ELSE /\ nextIid < MaxPerIdLogs
             /\ nextIid' = nextIid + 1
             /\ procs' = [procs EXCEPT ![p] =
                   Running("log_interaction_per_id", a,
                           [kind |-> "logged", id |-> newInteraction.id,
                            participantCount |-> Len(resolvedContactIds)],
                           io, "writeInteractionsPerId",
                           contacts, Append(interactions, newInteraction), <<>>,
                           resolvedContactIds)]
  /\ UNCHANGED <<store, nextCid, cycles>>

\* await writeInteractions, then Promise.all(ids.map(rebuildContactSummary)): every
\* cycle is started and has issued its reads
WriteInteractionsPerId(p) ==
  /\ procs[p].pc = "writeInteractionsPerId"
  /\ interactions' = procs[p].is
  /\ procs' = [procs EXCEPT ![p].pc = "awaitAll", ![p].io = Bump(@, "wi")]
  /\ cycles' = [k \in 1..Len(procs[p].ids) |->
                  [id |-> procs[p].ids[k], pc |-> "read", rb |-> EmptyStore, order |-> 0]]
  /\ UNCHANGED <<contacts, summaries, config, nextCid, nextIid>>

\* one cycle: its reads of contacts, interactions and summaries are served; a
\* cycle that finds no contact returns without writing
CycleRead(k) ==
  /\ k \in 1..Len(cycles)
  /\ cycles[k].pc = "read"
  /\ cycles' = [cycles EXCEPT ![k].rb = CurrentStore,
                              ![k].pc = IF FindContact(contacts, cycles[k].id) = 0
                                        THEN "done" ELSE "write"]
  /\ UNCHANGED <<store, procs, nextCid, nextIid>>

WritesSoFar == Cardinality({k \in 1..Len(cycles) : cycles[k].order > 0})

\* one cycle: compute from what it read and write the whole summaries collection
CycleWrite(k) ==
  /\ k \in 1..Len(cycles)
  /\ cycles[k].pc = "write"
  /\ summaries' = PerIdWritten(cycles[k].rb.ss,
                               PerIdSummary(cycles[k].id, cycles[k].rb.cs, cycles[k].rb.is)[1])
  /\ cycles' = [cycles EXCEPT ![k].pc = "done", ![k].order = WritesSoFar + 1]
  /\ UNCHANGED <<contacts, interactions, config, procs, nextCid, nextIid>>

\* Promise.all resolves when every cycle has completed
AllCyclesDone(p) ==
  /\ procs[p].pc = "awaitAll"
  /\ \A k \in 1..Len(cycles) : cycles[k].pc = "done"
  /\ procs' = [procs EXCEPT ![p].pc = "done"]
  /\ UNCHANGED <<store, nextCid, nextIid, cycles>>

ReturnPerId(p) ==
  /\ procs[p].pc = "done"
  /\ procs' = [procs EXCEPT ![p] = IdleProc]
  /\ cycles' = <<>>
  /\ UNCHANGED <<store, nextCid, nextIid>>

\* the contacts of three add_contact calls
SeedContacts ==
  [k \in 1..MaxContacts |-> [id |-> k, name |-> NameAB, nickname |-> NoText, private |-> FALSE]]

\* the summaries index came after the contacts: the collection is still missing
\* (read as empty), or holds the entries the add_contact calls wrote
PerIdInit ==
  /\ contacts = SeedContacts
  /\ interactions = <<>>
  /\ summaries \in {<<>>, RebuildAll(<<>>, [k \in 1..MaxContacts |-> k], SeedContacts, <<>>)}
  /\ config = [privateKey |-> ""]
  /\ procs = [p \in Procs |-> IdleProc]
  /\ nextCid = MaxContacts
  /\ nextIid = 0
  /\ cycles = <<>>

PerIdLogArgs ==
  [contactIds : IdLists, contactNames : {<<>>}, contactId : {NoId}, contactName : {NoText},
   date : {1}, summary : {TextGolf}, topics : {<<"golf">>},
   mentionedNextSteps : {"intro"}, location : {NULL},
   forceCreate : BOOLEAN, private : {FALSE}, privateKey : {NoKey}]

PerIdNext ==
  \/ \E a \in PerIdLogArgs : LogInteractionPerId(1, a)
  \/ WriteInteractionsPerId(1)
  \/ \E k \in 1..MaxContacts : CycleRead(k)
  \/ \E k \in 1..MaxContacts : CycleWrite(k)
  \/ AllCyclesDone(1)
  \/ ReturnPerId(1)

PerIdSpec == PerIdInit /\ [][PerIdNext]_vars

\* the per-id log_interaction has completed: every cycle has returned
PerIdDone == procs[1].pc = "done" /\ procs[1].op = "log_interaction_per_id"
             /\ procs[1].res.kind = "logged"

\* all cycles of a log with three participants read the same, empty, summaries
SameEmptySnapshot ==
  /\ PerIdDone
  /\ Len(cycles) = 3
  /\ procs[1].pre.ss = <<>>
  /\ \A k \in 1..Len(cycles) : cycles[k].rb.ss = <<>>

LastWriter == CHOOSE k \in 1..Len(cycles) : cycles[k].order = Len(cycles)

\* C2: when the three per-id cycles of one interaction all read the same empty
\* summaries collection, after all three have completed the collection holds
\* fewer than three entries: only the last writer's
PerIdLosesSummaries ==
  SameEmptySnapshot =>
    /\ Len(summaries) < 3
    /\ Len(summaries) = 1
    /\ summaries[1].id = cycles[LastWriter].id

\* C2 witness: the interleaving exists
PerIdLosesSummariesWitness ==
  /\ SameEmptySnapshot
  /\ Len(summaries) = 1
  /\ \A k \in 1..Len(cycles) : cycles[k].order > 0

\* ---------------------------------------------------------------- concurrent callers

SeedSummaries(cs, is) == RebuildAll(<<>>, Map(cs, LAMBDA c : c.id), cs, is)

\* the store after three add_contact calls
ConcInit ==
  /\ contacts = SeedContacts
  /\ interactions = <<>>
  /\ summaries = SeedSummaries(SeedContacts, <<>>)
  /\ config = [privateKey |-> ""]
  /\ procs = [p \in Procs |-> IdleProc]
  /\ nextCid = MaxContacts
  /\ nextIid = 0
  /\ cycles = <<>>

ConcLogArgs ==
  [contactIds : IdLists, contactNames : {<<>>}, contactId : {NoId}, contactName : {NoText},
   date : {1}, summary : {TextGolf}, topics : {<<"golf">>},
   mentionedNextSteps : {"intro"}, location : {NULL},
   forceCreate : {TRUE}, private : {FALSE}, privateKey : {NoKey}]

\* two callers; the steps of their handlers interleave at the awaits
ConcNext ==
  \E p \in Procs :
    \/ \E a \in ConcLogArgs : LogInteraction(p, a)
    \/ WriteInteractions(p)
    \/ RebuildRead(p)
    \/ RebuildWrite(p)
    \/ Return(p)

ConcSpec == ConcInit /\ [][ConcNext]_vars

\* both log_interaction calls have completed
BothLogged ==
  \A p \in Procs : /\ procs[p].pc = "done"
                   /\ procs[p].op = "log_interaction"
                   /\ procs[p].res.kind = "logged"

Affected == UNION {Range(procs[p].ids) : p \in Procs}

\* C3: when two log_interaction calls run concurrently, after both have
\* completed every affected contact has a summary entry that reflects the
\* interactions stored for it; neither rebuild is discarded by the other's write
ConcurrentRebuildsKeepAll ==
  BothLogged =>
    \A id \in Affected :
      \E k \in 1..Len(summaries) :
        Some(summaries[k]) = buildContactSummary(id, contacts, interactions)

\* ---------------------------------------------------------------- two cascades

PrivacyFlags == [1..MaxContacts -> BOOLEAN]

FlaggedContacts(f) ==
  [k \in 1..MaxContacts |-> [id |-> k, name |-> NameAB, nickname |-> NoText, private |-> f[k]]]

GroupAB ==
  [id |-> 1, contactIds |-> <<1, 2>>, date |-> 1, summary |-> TextGolf,
   topics |-> <<"golf">>, mentionedNextSteps |-> "intro", location |-> NULL,
   private |-> FALSE]

OtherInteractions ==
  {[GroupAB EXCEPT !.id = 2, !.contactIds = ids] : ids \in {<<2, 3>>, <<1>>, <<3>>}}

\* the store after add_contact calls, a set_key and the log_interaction of a
\* group interaction of contacts 1 and 2, possibly followed by another one
CascadeInit ==
  /\ \E f \in PrivacyFlags : contacts = FlaggedContacts(f)
  /\ interactions \in {<<GroupAB>>} \cup {<<GroupAB, o>> : o \in OtherInteractions}
  /\ summaries = SeedSummaries(contacts, interactions)
  /\ config = [privateKey |-> "k1"]
  /\ procs = [p \in Procs |-> IdleProc]
  /\ nextCid = MaxContacts
  /\ nextIid = MaxInteractions
  /\ cycles = <<>>

CascadeNext ==
  \/ \E a \in DeleteContactArgs : DeleteContact(1, a)
  \/ WriteInteractions(1)
  \/ RebuildRead(1)
  \/ RebuildWrite(1)
  \/ FinalWriteContacts(1)
  \/ FinalWriteSummaries(1)
  \/ Return(1)

CascadeSpec == CascadeInit /\ [][CascadeNext]_vars

StoredGroupAB == {k \in 1..Len(interactions) : interactions[k].id = GroupAB.id}

NotFound == [kind |-> "error", error |-> "not found"]

PrivateContactId(cs, id) == \E j \in 1..Len(cs) : cs[j].id = id /\ isContactPrivate(cs[j])

\* the collections as they are when the contact does not exist at all
Without(cs, id) == Filter(cs, LAMBDA c : c.id # id)

WithoutRefs(is, id) == Filter(is, LAMBDA i : id \notin Range(i.contactIds))

HiddenTarget(is, cs, id) ==
  \E k \in 1..Len(is) : is[k].id = id /\ isInteractionPrivate(is[k], cs)

\* a completed call of one of the operations, made by a locked caller
LockedCall(ops) ==
  /\ procs[1].pc = "done"
  /\ procs[1].op \in ops
  /\ ~isUnlocked(procs[1].args.privateKey, config)

\* C11: for a locked caller every call that targets a private contact or a
\* privacy-hidden interaction returns the result the same call returns when the
\* targeted record does not exist
ExistenceHidden ==
  LET pr == procs[1]
      pre == pr.pre
  IN /\ (LockedCall({"get_contact"}) /\ PrivateContactId(pre.cs, pr.args.contactId)) =>
          pr.res = ContactResult(pr.args, Without(pre.cs, pr.args.contactId),
                                 WithoutRefs(pre.is, pr.args.contactId), config)
     /\ (LockedCall({"update_contact", "delete_contact"})
           /\ PrivateContactId(pre.cs, pr.args.contactId)) =>
          pr.res = NotFound
     /\ (LockedCall({"get_recent_interactions"}) /\ pr.args.contactId # NoId
           /\ PrivateContactId(pre.cs, pr.args.contactId)) =>
          pr.res = RecentResult(pr.args, Without(pre.cs, pr.args.contactId),
                                WithoutRefs(pre.is, pr.args.contactId), config)
     /\ (LockedCall({"edit_interaction", "delete_interaction"})
           /\ HiddenTarget(pre.is, pre.cs, pr.args.interactionId)) =>
          pr.res = NotFound
     /\ (LockedCall({"log_interaction"})
           /\ \E id \in Range(pr.args.contactIds) : PrivateContactId(pre.cs, id)) =>
          pr.res = NotFound

\* ---------------------------------------------------------------- detail-level redaction

\* C12: get_contact by a locked caller on a public contact returns every
\* interaction of the contact that is not flagged private and has a private
\* co-participant, with the private participants taken out of its contactIds
SharedInteractionRedacted ==
  LET pr == procs[1]
      pre == pr.pre
  IN (LockedCall({"get_contact"}) /\ pr.res.kind = "contact") =>
       \A k \in 1..Len(pre.is) :
         (/\ pr.res.id \in Range(pre.is[k].contactIds)
          /\ ~pre.is[k].private
          /\ \E b \in Range(pre.is[k].contactIds) : PrivateContactId(pre.cs, b))
         => \E e \in Range(pr.res.interactions) :
              /\ e.id = pre.is[k].id
              /\ e.contactIds = Filter(pre.is[k].contactIds,
                                       LAMBDA id : ~PrivateContactId(pre.cs, id))

\* ---------------------------------------------------------------- the key check

ProvidedKeys == {NoKey, "k1", WrongKey}

\* C13: isUnlocked is true exactly when a key is configured and the provided
\* key equals it, and get_contact shows a private contact to exactly those callers
UnlockedExactly ==
  /\ \A k \in ProvidedKeys :
       isUnlocked(k, config) <=> (config.privateKey # "" /\ k = config.privateKey)
  /\ \A k \in ProvidedKeys : config.privateKey = "" => ~isUnlocked(k, config)
  /\ (Done("get_contact") /\ PrivateContactId(contacts, procs[1].args.contactId)) =>
       (procs[1].res.kind = "contact"
          <=> (config.privateKey # "" /\ procs[1].args.privateKey = config.privateKey))

\* C13 witness: with a key configured, the caller who gives it reads a private contact
UnlockedExactlyWitness ==
  /\ config.privateKey = "k1"
  /\ Done("get_contact")
  /\ procs[1].args.privateKey = "k1"
  /\ PrivateContactId(contacts, procs[1].args.contactId)
  /\ procs[1].res.kind = "contact"

\* ---------------------------------------------------------------- duplicate warning

\* the stored interactions with the participants, date and summary of the call
ExactDuplicates(a, is) ==
  {k \in 1..Len(is) : /\ is[k].contactIds = Dedup(a.contactIds)
                      /\ is[k].date = a.date
                      /\ is[k].summary = a.summary}

\* C14: log_interaction without forceCreate that finds a similar interaction
\* returns a warning with the matches and writes nothing; with forceCreate it
\* appends exactly one interaction whatever the similarity; the stored
\* interactions are never modified
DuplicateWarningOrForce ==
  Done("log_interaction") =>
    LET pr == procs[1]
        pre == pr.pre
        a == pr.args
    IN /\ pr.res.kind = "warning" =>
            /\ ~a.forceCreate
            /\ CurrentStore = pre
            /\ NoWrites(pr.io)
            /\ pr.res.similarInteractions # <<>>
            /\ \A id \in Range(pr.res.similarInteractions) :
                 \E k \in 1..Len(pre.is) : pre.is[k].id = id
       /\ (~a.forceCreate /\ pr.res.kind # "error" /\ ExactDuplicates(a, pre.is) # {}) =>
            /\ pr.res.kind = "warning"
            /\ \A k \in ExactDuplicates(a, pre.is) :
                 pre.is[k].id \in Range(pr.res.similarInteractions)
       /\ (a.forceCreate /\ pr.res.kind # "error") =>
            /\ pr.res.kind = "logged"
            /\ Len(interactions) = Len(pre.is) + 1
            /\ SubSeq(interactions, 1, Len(pre.is)) = pre.is
            /\ interactions[Len(interactions)].id = pr.res.id

\* C14 witness: a forced log_interaction stored a second interaction with the
\* participants, date and summary of a stored one
DuplicateWarningOrForceWitness ==
  /\ Done("log_interaction")
  /\ procs[1].args.forceCreate
  /\ procs[1].res.kind = "logged"
  /\ ExactDuplicates(procs[1].args, procs[1].pre.is) # {}
  /\ Len(interactions) = Len(procs[1].pre.is) + 1

\* ---------------------------------------------------------------- edit of the participants

\* a completed edit_interaction that set contactIds
EditedParticipants ==
  /\ Done("edit_interaction")
  /\ procs[1].res.kind = "updated"
  /\ "contactIds" \in DOMAIN procs[1].args.updates

OldParticipants ==
  LET pre == procs[1].pre
  IN Range(pre.is[FindInteraction(pre.is, procs[1].args.interactionId)].contactIds)

NewParticipants == Range(procs[1].args.updates.contactIds)

\* C16: edit_interaction that changes contactIds from P to Q rebuilds, in one
\* read and one write of the summaries, every contact of P and Q: each public
\* one has the summary buildContactSummary gives on the state after the edit
EditRebuildsUnion ==
  EditedParticipants =>
    /\ procs[1].io.rs = 1
    /\ procs[1].io.ws = 1
    /\ Range(procs[1].ids) = OldParticipants \cup NewParticipants
    /\ \A id \in (OldParticipants \cup NewParticipants) \cap PublicIdsIn(contacts) :
         \E k \in 1..Len(summaries) :
           Some(summaries[k]) = buildContactSummary(id, contacts, interactions)

\* C16 witness: a public contact was taken out of an interaction by the edit
\* and its entry went from counting it to not counting it, while the public
\* contact put in now counts it
EditRebuildsUnionWitness ==
  /\ EditedParticipants
  /\ \E id \in (OldParticipants \ NewParticipants) \cap PublicIdsIn(contacts) :
       /\ CountBefore(id) = 1
       /\ \E k \in 1..Len(summaries) :
            summaries[k].id = id /\ summaries[k].interactionCount = 0
  /\ \E id \in (NewParticipants \ OldParticipants) \cap PublicIdsIn(contacts) :
       /\ CountBefore(id) = 0
       /\ \E k \in 1..Len(summaries) :
            summaries[k].id = id /\ summaries[k].interactionCount = 1

\* ---------------------------------------------------------------- delete_interaction

StoredIds(is) == {is[k].id : k \in 1..Len(is)}

\* C17: delete_interaction on a stored, accessible interaction removes exactly
\* that record, changes no other interaction and no contact, and leaves each
\* participant's summary equal to buildContactSummary of the resulting state;
\* the id is then no longer stored, and a delete_interaction of an id that is
\* not stored returns the not-found error and changes no collection
DeleteInteractionExact ==
  Done("delete_interaction") =>
    LET pr == procs[1]
        pre == pr.pre
        target == pr.args.interactionId
    IN /\ pr.res.kind = "deleted" =>
            /\ contacts = pre.cs
            /\ interactions = Filter(pre.is, LAMBDA i : i.id # target)
            /\ Len(interactions) = Len(pre.is) - 1
            /\ target \notin StoredIds(interactions)
            /\ \A id \in Range(pre.is[FindInteraction(pre.is, target)].contactIds) :
                 LET want == buildContactSummary(id, contacts, interactions)
                     have == EntriesOf(summaries, id)
                 IN IF want = None THEN have = {}
                    ELSE have # {} /\ \A k \in have : summaries[k] = want[1]
       /\ target \notin StoredIds(pre.is) =>
            /\ pr.res = NotFound
            /\ CurrentStore = pre
            /\ NoWrites(pr.io)

\* C17 witness: the same delete_interaction again, after the first one removed
\* the record (no contact was ever deleted), returns the not-found error
DeleteInteractionExactWitness ==
  /\ Done("delete_interaction")
  /\ procs[1].res = NotFound
  /\ procs[1].args.interactionId <= nextIid
  /\ procs[1].args.interactionId \notin StoredIds(interactions)
  /\ Len(contacts) = nextCid
  /\ interactions # <<>>

\* ---------------------------------------------------------------- referential integrity

DuplicateFree(s) == Cardinality(Range(s)) = Len(s)

\* C19: after any sequence of completed calls every stored interaction has a
\* non-empty, duplicate-free contactIds list whose ids are all contacts of the
\* contacts collection
InteractionsReferenceContacts ==
  Quiet =>
    \A k \in 1..Len(interactions) :
      /\ interactions[k].contactIds # <<>>
      /\ DuplicateFree(interactions[k].contactIds)
      /\ Range(interactions[k].contactIds) \subseteq ContactIdsIn(contacts)

\* ---------------------------------------------------------------- the duplicate decision

Word(ch) == <<ch, ch, ch, ch>>

Sentence(words) == Join(words, <<" ">>)

\* a word of three characters is not significant
ShortSummary == <<"a", "b", "c">>

NewSummaries ==
  {Sentence(<<Word("a")>>),
   Sentence(<<<<"A", "a", "a", "a">>, Word("b"), Word("c"), Word("d")>>),
   ShortSummary}

OldSummaries ==
  {Sentence(<<Word("a")>>),
   Sentence(<<Word("a"), Word("a")>>),
   Sentence(<<Word("b"), Word("c"), Word("d")>>),
   ShortSummary}

StoredInteractions ==
  [id : {1}, contactIds : {<<1>>, <<1, 2>>, <<1, 2, 3>>}, date : {1, 5},
   summary : OldSummaries, topics : {<<"golf">>}, mentionedNextSteps : {"intro"},
   location : {NULL}, private : {FALSE}]

\* the store after three add_contact calls and one log_interaction
DupInit ==
  /\ contacts = SeedContacts
  /\ \E i \in StoredInteractions : interactions = <<i>>
  /\ summaries = SeedSummaries(contacts, interactions)
  /\ config = [privateKey |-> ""]
  /\ procs = [p \in Procs |-> IdleProc]
  /\ nextCid = MaxContacts
  /\ nextIid = 1
  /\ cycles = <<>>

DupLogArgs ==
  [contactIds : IdLists, contactNames : {<<>>}, contactId : {NoId}, contactName : {NoText},
   date : {1, 2}, summary : NewSummaries, topics : {<<"golf">>},
   mentionedNextSteps : {"intro"}, location : {NULL},
   forceCreate : {FALSE}, private : {FALSE}, privateKey : {NoKey}]

DupNext ==
  \/ \E a \in DupLogArgs : LogInteraction(1, a)
  \/ WriteInteractions(1)
  \/ RebuildRead(1)
  \/ RebuildWrite(1)
  \/ Return(1)

DupSpec == DupInit /\ [][DupNext]_vars

\* the set of lower-cased whitespace tokens longer than 3 characters
TokenSet(summary) == {w \in Range(SplitWs(ToLowerCase(summary))) : Len(w) > 3}

\* the specified predicate for a candidate (P, D, S) and a stored interaction
SpecifiedDuplicate(P, D, S, i) ==
  LET Pi == Range(i.contactIds)
      k == Cardinality(TokenSet(S) \cap TokenSet(i.summary))
  IN /\ P \cap Pi # {}
     /\ Abs(D - i.date) <= 3
     /\ 2 * Cardinality(P \cap Pi) >= Max(Cardinality(P), Cardinality(Pi))
     /\ 10 * k >= Min(30, 3 * Cardinality(TokenSet(S)))

\* C15: the duplicate decision of log_interaction is the specified predicate:
\* the call is answered with a warning exactly when some stored interaction
\* satisfies it, and the warning lists exactly those interactions
DuplicateDecisionAsSpecified ==
  (Done("log_interaction") /\ procs[1].res.kind # "error") =>
    LET a == procs[1].args
        pre == procs[1].pre
        dup == {pre.is[k].id : k \in {j \in 1..Len(pre.is) :
                  SpecifiedDuplicate(Range(a.contactIds), a.date, a.summary, pre.is[j])}}
    IN /\ procs[1].res.kind = "warning" <=> dup # {}
       /\ procs[1].res.kind = "warning" => Range(procs[1].res.similarInteractions) = dup

\* ---------------------------------------------------------------- resolving participants

NameCB == <<"C", " ", "b">>

NameZZ == <<"z", "z">>

\* contacts with two different names: odd ids "A b", even ids "C b"
NamedContacts(f) ==
  [k \in 1..MaxContacts |->
     [id |-> k, name |-> IF k % 2 = 1 THEN NameAB ELSE NameCB,
      nickname |-> NoText, private |-> f[k]]]

UnknownId == MaxContacts + 1

\* the store after add_contact calls and a set_key, with or without one interaction
LogInit ==
  /\ \E f \in PrivacyFlags : contacts = NamedContacts(f)
  /\ interactions \in {<<>>, <<GroupAB>>}
  /\ summaries = SeedSummaries(contacts, interactions)
  /\ config = [privateKey |-> "k1"]
  /\ procs = [p \in Procs |-> IdleProc]
  /\ nextCid = MaxContacts
  /\ nextIid = Len(interactions)
  /\ cycles = <<>>

\* every way of naming the participants: lists with repeated and unknown ids,
\* names that match one, several or no contact, and nothing at all
ResolveLogArgs ==
  [contactIds : {<<>>, <<1>>, <<1, 1>>, <<2, 1, 2>>, <<1, UnknownId>>},
   contactNames : {<<>>, <<NameCB>>, <<<<"b">>, <<"c", " ", "B">>, <<"b">>>>, <<NameZZ>>},
   contactId : {NoId, 2, UnknownId},
   contactName : {NoText, <<"b">>, NameZZ},
   date : {1}, summary : {TextGolf}, topics : {<<"golf">>},
   mentionedNextSteps : {"intro"}, location : {NULL},
   forceCreate : BOOLEAN, private : {FALSE}, privateKey : ProvidedKeys]

LogNext ==
  \/ \E a \in ResolveLogArgs : LogInteraction(1, a)
  \/ WriteInteractions(1)
  \/ RebuildRead(1)
  \/ RebuildWrite(1)
  \/ Return(1)

LogSpec == LogInit /\ [][LogNext]_vars

\* the ids and names a log_interaction call supplies
SuppliedIds(a) == Range(a.contactIds) \cup (IF a.contactId = NoId THEN {} ELSE {a.contactId})

SuppliedNames(a) ==
  Range(a.contactNames) \cup (IF a.contactName = NoText THEN {} ELSE {a.contactName})

\* the contacts a supplied name matches: case-insensitive substring of the name
NamedBy(n, cs) ==
  {cs[k].id : k \in {j \in 1..Len(cs) : Includes(ToLowerCase(cs[j].name), ToLowerCase(n))}}

\* C18: a completed log_interaction returned an error and wrote no collection
\* when a supplied id or name resolves to no existing contact, when no
\* participant argument was given, or when a stored participant is private and
\* the caller is locked; a logged interaction stores a duplicate-free contactIds
\* of contacts existing at that moment, and exactly their summaries are rebuilt
LogResolvesOrFails ==
  Done("log_interaction") =>
    LET a == procs[1].args
        pre == procs[1].pre
        res == procs[1].res
        known == {pre.cs[k].id : k \in 1..Len(pre.cs)}
        unresolved == \/ \E id \in SuppliedIds(a) : id \notin known
                      \/ \E n \in SuppliedNames(a) : NamedBy(n, pre.cs) = {}
        nothingGiven == SuppliedIds(a) = {} /\ SuppliedNames(a) = {}
        locked == a.privateKey # config.privateKey
    IN /\ (unresolved \/ nothingGiven) => res.kind = "error"
       /\ res.kind = "error" => CurrentStore = pre /\ NoWrites(procs[1].io)
       /\ res.kind = "logged" =>
            LET stored == interactions[Len(interactions)]
                ids == Range(stored.contactIds)
            IN /\ interactions = Append(pre.is, stored)
               /\ stored.id = res.id
               /\ DuplicateFree(stored.contactIds)
               /\ ids \subseteq known
               /\ contacts = pre.cs
               /\ locked => \A k \in 1..Len(pre.cs) : pre.cs[k].id \in ids => ~pre.cs[k].private
               /\ a.contactIds # <<>> => ids = Range(a.contactIds)
               /\ (a.contactIds = <<>> /\ a.contactNames # <<>>) =>
                    /\ \A n \in Range(a.contactNames) : ids \cap NamedBy(n, pre.cs) # {}
                    /\ \A id \in ids : \E n \in Range(a.contactNames) : id \in NamedBy(n, pre.cs)
               /\ Range(procs[1].ids) = ids
               /\ \A id \in ids :
                    LET b == buildContactSummary(id, contacts, interactions)
                    IN /\ b # None => \E k \in 1..Len(summaries) : summaries[k] = b[1]
                       /\ b = None => \A k \in 1..Len(summaries) : summaries[k].id # id
               /\ \A k \in 1..Len(pre.ss) :
                    pre.ss[k].id \notin ids => \E j \in 1..Len(summaries) : summaries[j] = pre.ss[k]
               /\ \A j \in 1..Len(summaries) :
                    summaries[j].id \notin ids => \E k \in 1..Len(pre.ss) : summaries[j] = pre.ss[k]

\* ---------------------------------------------------------------- adding a known name

NameLowerUpper == <<"a", " ", "B">>

NameBA == <<"b", " ", "a">>

\* a nickname that contains "a b" up to case
NickXaB == <<"X", "a", " ", "B">>

StoredContactAt(k) ==
  [id : {k}, name : {NameAB, NameCB}, nickname : {NoText, NickXaB}, private : BOOLEAN]

\* the contacts collection after no, one or two forced add_contact calls
StoredContacts ==
  {<<>>} \cup {<<c>> : c \in StoredContactAt(1)}
         \cup {<<c, d>> : c \in StoredContactAt(1), d \in StoredContactAt(2)}

AddInit ==
  /\ contacts \in StoredContacts
  /\ interactions = <<>>
  /\ summaries = SeedSummaries(contacts, interactions)
  /\ config = [privateKey |-> ""]
  /\ procs = [p \in Procs |-> IdleProc]
  /\ nextCid = Len(contacts)
  /\ nextIid = 0
  /\ cycles = <<>>

\* one word between blanks
PaddedOneWord == <<" ", "A", " ">>

\* two words after a blank, two blanks between them
PaddedTwoWords == <<" ", "C", " ", " ", "a">>

NamedAddArgs ==
  [name : {NameAB, NameLowerUpper, NameCB, NameBA, OneWordName, NoText,
           PaddedOneWord, PaddedTwoWords},
   nickname : {NoText, NickXaB}, private : BOOLEAN, forceDuplicate : BOOLEAN]

AddNext ==
  \/ \E a \in NamedAddArgs : AddContact(1, a)
  \/ WriteContacts(1)
  \/ RebuildRead(1)
  \/ RebuildWrite(1)
  \/ Return(1)

AddSpec == AddInit /\ [][AddNext]_vars

\* the contacts whose name or nickname contains the text, letter case ignored
MatchedBy(n, cs) ==
  {cs[k].id : k \in {j \in 1..Len(cs) :
     \/ Includes(ToLowerCase(cs[j].name), ToLowerCase(n))
     \/ (cs[j].nickname # NoText /\ Includes(ToLowerCase(cs[j].nickname), ToLowerCase(n)))}}

TwoWords(name) == \E k \in 2..(Len(name) - 1) : name[k] = " " /\ name[1] # " " /\ name[Len(name)] # " "

\* C20: a completed add_contact of a full name that matches a stored contact by
\* case-insensitive substring of name or nickname, without forceDuplicate,
\* returned a warning listing exactly the matches and left contacts and
\* summaries as they were, writing nothing; with forceDuplicate exactly one
\* contact, the new one, was appended to the contacts
AddWarnsOrAppends ==
  (Done("add_contact") /\ TwoWords(procs[1].args.name)) =>
    LET a == procs[1].args
        pre == procs[1].pre
        res == procs[1].res
        matches == MatchedBy(a.name, pre.cs)
    IN /\ (matches # {} /\ ~a.forceDuplicate) =>
            /\ res.kind = "warning"
            /\ Range(res.existingContacts) = matches
            /\ DuplicateFree(res.existingContacts)
            /\ contacts = pre.cs
            /\ summaries = pre.ss
            /\ NoWrites(procs[1].io)
       /\ a.forceDuplicate =>
            /\ res.kind = "created"
            /\ Len(contacts) = Len(pre.cs) + 1
            /\ SubSeq(contacts, 1, Len(pre.cs)) = pre.cs
            /\ contacts[Len(contacts)].id = res.id
            /\ contacts[Len(contacts)].name = a.name
            /\ res.id \notin ContactIdsIn(pre.cs)
            /\ procs[1].io.wc = 1

\* C20 witness: the same name was added again without forceDuplicate and the
\* collection still holds the one contact of that name
AddWarnsOrAppendsWitness ==
  /\ Done("add_contact")
  /\ procs[1].res.kind = "warning"
  /\ ~procs[1].args.forceDuplicate
  /\ Len(contacts) = 1
  /\ contacts[1].name = procs[1].args.name
  /\ procs[1].res.existingContacts = <<1>>

\* ---------------------------------------------------------------- validating the name

\* the number of maximal runs of non-blank characters of a text
TokenCount(text) ==
  Cardinality({k \in 1..Len(text) : text[k] # " " /\ (k = 1 \/ text[k - 1] = " ")})

\* C21: a completed add_contact whose name has fewer than two tokens returned
\* a validation error having read and written no collection; one whose name
\* has two or more tokens and matches no contact appended exactly one contact
\* with a fresh id, and the summaries gained exactly the entry of that
\* contact, or nothing when it was created private
AddValidatesName ==
  Done("add_contact") =>
    LET a == procs[1].args
        pre == procs[1].pre
        res == procs[1].res
    IN /\ TokenCount(a.name) < 2 =>
            /\ res.kind = "error"
            /\ procs[1].io = NoIo
            /\ CurrentStore = pre
       /\ (TokenCount(a.name) >= 2 /\ MatchedBy(a.name, pre.cs) = {}) =>
            /\ res.kind = "created"
            /\ res.id \notin ContactIdsIn(pre.cs)
            /\ Len(contacts) = Len(pre.cs) + 1
            /\ SubSeq(contacts, 1, Len(pre.cs)) = pre.cs
            /\ contacts[Len(contacts)] = [id |-> res.id, name |-> a.name,
                                          nickname |-> a.nickname, private |-> a.private]
            /\ interactions = pre.is
            /\ procs[1].io.wc = 1
            /\ IF a.private
               THEN summaries = pre.ss
               ELSE /\ Len(summaries) = Len(pre.ss) + 1
                    /\ SubSeq(summaries, 1, Len(pre.ss)) = pre.ss
                    /\ Some(summaries[Len(summaries)]) =
                         buildContactSummary(res.id, contacts, interactions)

\* C21 witness: a name of one word between blanks was rejected
AddValidatesNameWitness ==
  /\ Done("add_contact")
  /\ procs[1].args.name = PaddedOneWord
  /\ procs[1].res.kind = "error"

\* ---------------------------------------------------------------- renaming a contact

\* update_contact calls that patch the name
RenameArgs ==
  [contactId : ContactIdsOf, name : {NoText},
   updates : {[name |-> OneWordName], [name |-> NameCB], [name |-> PaddedOneWord]},
   privateKey : {NoKey}]

RenameNext ==
  \/ \E a \in AddArgs : AddContact(1, a)
  \/ \E a \in RenameArgs : UpdateContact(1, a)
  \/ WriteContacts(1)
  \/ RebuildRead(1)
  \/ RebuildWrite(1)
  \/ Return(1)

\* add_contact and update_contact calls on an empty store, one at a time
RenameSpec == Init /\ [][RenameNext]_vars

\* C22: every contact in the contacts collection has a name of at least two
\* whitespace-separated tokens, whatever add_contact and update_contact calls
\* were made
StoredNamesHaveTwoTokens ==
  \A k \in 1..Len(contacts) : TokenCount(contacts[k].name) >= 2

\* ---------------------------------------------------------------- writes per call

MutatingOps == {"add_contact", "update_contact", "log_interaction", "edit_interaction",
                "delete_interaction", "delete_contact"}

\* C23: within one call of a mutating operation each of the contacts,
\* interactions and summaries collections is written at most once
OneWritePerCollection ==
  procs[1].op \in MutatingOps =>
    /\ procs[1].io.wc <= 1
    /\ procs[1].io.wi <= 1
    /\ procs[1].io.ws <= 1

\* ---------------------------------------------------------------- rebuilding a missing contact

\* the store after add_contact calls, with or without a group interaction
StaleInit ==
  /\ contacts = SeedContacts
  /\ interactions \in {<<>>, <<GroupAB>>}
  /\ summaries = SeedSummaries(contacts, interactions)
  /\ config = [privateKey |-> ""]
  /\ procs = [p \in Procs |-> IdleProc]
  /\ nextCid = MaxContacts
  /\ nextIid = Len(interactions)
  /\ cycles = <<>>

\* the ids of the participants of the group interaction
StaleTargets == Range(GroupAB.contactIds)

StaleUpdateArgs ==
  [contactId : StaleTargets, name : {NoText}, updates : {[private |-> FALSE]},
   privateKey : {NoKey}]

StaleDeleteArgs ==
  [contactId : StaleTargets, name : {NoText}, deleteInteractions : {TRUE},
   privateKey : {NoKey}]

\* two callers, one updating and one deleting; their steps interleave at the awaits
StaleNext ==
  \/ \E a \in StaleUpdateArgs : UpdateContact(1, a)
  \/ \E a \in StaleDeleteArgs : DeleteContact(2, a)
  \/ \E p \in Procs :
       \/ WriteContacts(p)
       \/ WriteInteractions(p)
       \/ RebuildRead(p)
       \/ RebuildWrite(p)
       \/ FinalWriteContacts(p)
       \/ FinalWriteSummaries(p)
       \/ Return(p)

StaleSpec == StaleInit /\ [][StaleNext]_vars

\* C24: the write of a batched rebuild leaves no summary entry for an id of
\* the batch whose contact was missing from the contacts the rebuild read
RebuildRemovesMissing ==
  [][\A p \in Procs :
       RebuildWrite(p) =>
         \A id \in Range(procs[p].ids) :
           FindContact(procs[p].rb.cs, id) = 0 => id \notin SummaryIdsIn(summaries')]_vars

\* ---------------------------------------------------------------- failure and retry

\* the store after add_contact calls
RetryInit ==
  /\ contacts = SeedContacts
  /\ interactions = <<>>
  /\ summaries = SeedSummaries(contacts, interactions)
  /\ config = [privateKey |-> ""]
  /\ procs = [p \in Procs |-> IdleProc]
  /\ nextCid = MaxContacts
  /\ nextIid = 0
  /\ cycles = <<>>

RetryLogArgs ==
  [contactIds : IdLists, contactNames : {<<>>}, contactId : {NoId}, contactName : {NoText},
   date : {1}, summary : {TextGolf, ShortSummary}, topics : {<<"golf">>},
   mentionedNextSteps : {"intro"}, location : {NULL},
   forceCreate : BOOLEAN, private : {FALSE}, privateKey : {NoKey}]

\* the first call, on the store without interactions
FirstLog(p) ==
  /\ interactions = <<>>
  /\ \E a \in RetryLogArgs : LogInteraction(p, a)

\* a read or the write of rebuildContactSummaries throws after writeInteractions
\* has completed: the call ends with the summaries not written
FailAfterSourceWrite(p) ==
  /\ procs[p].op = "log_interaction"
  /\ procs[p].pc \in {"rebuildRead", "rebuildWrite"}
  /\ procs' = [procs EXCEPT ![p].pc = "failed"]
  /\ UNCHANGED <<store, nextCid, nextIid, cycles>>

\* the caller invokes the failed operation again with the same arguments
Retry(p) ==
  /\ procs[p].pc = "failed"
  /\ logInteraction(p, procs[p].args)

RetryNext ==
  \/ FirstLog(1)
  \/ FailAfterSourceWrite(1)
  \/ Retry(1)
  \/ WriteInteractions(1)
  \/ RebuildRead(1)
  \/ RebuildWrite(1)
  \/ Return(1)

RetrySpec == RetryInit /\ [][RetryNext]_vars

\* a call that started on a store holding interactions has returned: the retry
RetryReturned == Done("log_interaction") /\ procs[1].pre.is # <<>>

\* C25: when the retry of a log_interaction that failed between its
\* interactions write and its summaries write has returned, the store is that
\* of a failure-free run: the interaction is stored once and the summary of
\* every contact is buildContactSummary of the stored contacts and interactions
RetryHeals ==
  RetryReturned =>
    /\ Len(interactions) = 1
    /\ \A k \in 1..Len(contacts) :
         LET want == buildContactSummary(contacts[k].id, contacts, interactions)
             have == EntriesOf(summaries, contacts[k].id)
         IN IF want = None THEN have = {}
            ELSE have # {} /\ \A j \in have : summaries[j] = want[1]

\* ---------------------------------------------------------------- setting the key

SetKeyAnyArgs == [currentKey : ProvidedKeys, newKey : ProvidedKeys]

\* manage_privacy set_key and add_contact calls on an empty store, one at a time
KeyNext ==
  \/ \E a \in SetKeyAnyArgs : SetKey(1, a)
  \/ \E a \in AddArgs : AddContact(1, a)
  \/ WriteContacts(1)
  \/ RebuildRead(1)
  \/ RebuildWrite(1)
  \/ Return(1)

KeySpec == Init /\ [][KeyNext]_vars

\* C26: a set_key call without newKey is an error and leaves the config; with
\* no key configured or with currentKey equal to the stored key it stores
\* newKey; otherwise it returns the current-key error and leaves the config;
\* no other step changes the config, and a configured key never becomes empty
SetKeyGuarded ==
  [][/\ (procs[1].pc = "idle" /\ procs'[1].op = "manage_privacy") =>
          LET a == procs'[1].args
              res == procs'[1].res
          IN IF a.newKey = NoKey
             THEN res.kind = "error" /\ res.error = "newKey" /\ config' = config
             ELSE IF config.privateKey = "" \/ a.currentKey = config.privateKey
             THEN res.kind = "success" /\ config' = [privateKey |-> a.newKey]
             ELSE res.kind = "error" /\ res.error = "currentKey" /\ config' = config
     /\ ~(procs[1].pc = "idle" /\ procs'[1].op = "manage_privacy") => config' = config
     /\ config.privateKey # "" => config'.privateKey # ""]_vars

\* C26 witness: with key k1 stored, a set_key with another currentKey was refused
SetKeyGuardedWitness ==
  /\ Done("manage_privacy")
  /\ config.privateKey = "k1"
  /\ procs[1].args.currentKey = WrongKey
  /\ procs[1].args.newKey = WrongKey
  /\ procs[1].res.kind = "error"
  /\ procs[1].res.error = "currentKey"

\* ---------------------------------------------------------------- top topics

TopicLists ==
  {<<>>, <<"t1", "t2", "t3">>, <<"t4", "t5", "t6">>, <<"t6", "t1">>,
   <<"t7", "t6", "t6">>, <<"t3", "t7", "t6", "t5">>}

\* three stored interactions of contact 1, alone or with contact 2 or 3
TopicInteractions ==
  {[k \in 1..3 |->
      [id |-> k, contactIds |-> ids[k], date |-> k, summary |-> TextGolf,
       topics |-> ts[k], mentionedNextSteps |-> "intro", location |-> NULL,
       private |-> (k = 3 /\ flagged)]] :
     ids \in [1..3 -> {<<1>>, <<1, 2>>}], ts \in [1..3 -> TopicLists], flagged \in BOOLEAN}

\* the store after add_contact and log_interaction calls
TopicInit ==
  /\ contacts = SeedContacts
  /\ interactions \in TopicInteractions
  /\ summaries = SeedSummaries(contacts, interactions)
  /\ config = [privateKey |-> ""]
  /\ procs = [p \in Procs |-> IdleProc]
  /\ nextCid = MaxContacts
  /\ nextIid = Len(interactions)
  /\ cycles = <<>>

TopicUpdateArgs ==
  [contactId : {1, 2}, name : {NoText}, updates : {[private |-> FALSE]},
   privateKey : {NoKey}]

\* update_contact calls, each rebuilding the summary of its contact
TopicNext ==
  \/ \E a \in TopicUpdateArgs : UpdateContact(1, a)
  \/ WriteContacts(1)
  \/ RebuildRead(1)
  \/ RebuildWrite(1)
  \/ Return(1)

TopicSpec == TopicInit /\ [][TopicNext]_vars

\* the interactions that list the contact, are not flagged private and have no
\* private participant
Qualifying(id, cs, is) ==
  {k \in 1..Len(is) :
     /\ id \in Range(is[k].contactIds)
     /\ ~is[k].private
     /\ \A j \in 1..Len(cs) : cs[j].id \in Range(is[k].contactIds) => ~cs[j].private}

\* the occurrences of a topic in the qualifying interactions
Occurrences(t, id, cs, is) ==
  Cardinality({pos \in UNION {{<<k, j>> : j \in 1..Len(is[k].topics)} : k \in Qualifying(id, cs, is)} :
                 is[pos[1]].topics[pos[2]] = t})

TopicsOf(id, cs, is) == UNION {Range(is[k].topics) : k \in Qualifying(id, cs, is)}

\* C27: the topTopics of every built summary, and of every summary entry
\* written by a rebuild, has at most 5 entries, no topic twice, is in order of
\* non-increasing occurrence count over the qualifying interactions, and no
\* topic left out has a higher count than one included
TopTopicsRanked ==
  \A id \in ContactIdsIn(contacts) :
    LET b == buildContactSummary(id, contacts, interactions)
        T == b[1].topTopics
        n(t) == Occurrences(t, id, contacts, interactions)
        all == TopicsOf(id, contacts, interactions)
    IN b # None =>
         /\ Len(T) <= 5
         /\ Len(T) = Min(5, Cardinality(all))
         /\ DuplicateFree(T)
         /\ Range(T) \subseteq all
         /\ \A k \in 1..(Len(T) - 1) : n(T[k]) >= n(T[k + 1])
         /\ \A t \in all \ Range(T) : \A u \in Range(T) : n(t) <= n(u)
         /\ (Quiet /\ procs[1].op = "update_contact" /\ procs[1].ids = <<id>>) =>
              \A k \in EntriesOf(summaries, id) : summaries[k].topTopics = T

\* C27 witness: a rebuilt entry ranks five of more than five topics, in
\* another order than the topics were met
TopTopicsRankedWitness ==
  /\ Done("update_contact")
  /\ procs[1].res.kind = "updated"
  /\ \E k \in EntriesOf(summaries, procs[1].res.id) :
       /\ Len(summaries[k].topTopics) = 5
       /\ Cardinality(TopicsOf(procs[1].res.id, contacts, interactions)) > 5
       /\ \E j \in 1..4 :
            Occurrences(summaries[k].topTopics[j], procs[1].res.id, contacts, interactions)
              > Occurrences(summaries[k].topTopics[j + 1], procs[1].res.id, contacts, interactions)
       /\ summaries[k].topTopics #
            FirstTopics(Filter(interactions, LAMBDA i : procs[1].res.id \in Range(i.contactIds)))

\* ---------------------------------------------------------------- rebuilding twice

\* the summaries collection: missing, in line with the store, or left behind
\* by a rebuild that failed after the contacts were made private
IdemSummaries(cs, is) ==
  {<<>>, SeedSummaries(cs, is), SeedSummaries(SeedContacts, <<>>)}

IdemInit ==
  /\ \E f \in PrivacyFlags : contacts = FlaggedContacts(f)
  /\ interactions \in {<<>>, <<GroupAB>>} \cup {<<GroupAB, o>> : o \in OtherInteractions}
  /\ summaries \in IdemSummaries(contacts, interactions)
  /\ config = [privateKey |-> "k1"]
  /\ procs = [p \in Procs |-> IdleProc]
  /\ nextCid = MaxContacts
  /\ nextIid = Len(interactions)
  /\ cycles = <<>>

\* the id lists handlers pass to rebuildContactSummaries, repeated ids included
RebuildIdLists == IdLists \cup {<<1, 1>>, <<2, 1, 2>>}

\* rebuildContactSummaries(contactIds), called on its own
Rebuild(p, contactIds) ==
  /\ procs[p].pc = "idle"
  /\ procs' = [procs EXCEPT ![p] =
        Running("rebuild", [contactIds |-> contactIds], [kind |-> "rebuilt", runs |-> 1],
                NoIo, "rebuildRead", <<>>, <<>>, <<>>, contactIds)]
  /\ UNCHANGED <<store, nextCid, nextIid, cycles>>

\* the same call once more, right after the first has written; the summaries
\* the first run left are kept for comparison
RebuildAgain(p) ==
  /\ procs[p].pc = "done"
  /\ procs[p].op = "rebuild"
  /\ procs[p].res.runs = 1
  /\ procs' = [procs EXCEPT ![p].pc = "rebuildRead", ![p].res.runs = 2,
                            ![p].ss = summaries]
  /\ UNCHANGED <<store, nextCid, nextIid, cycles>>

IdemNext ==
  \/ \E ids \in RebuildIdLists : Rebuild(1, ids)
  \/ RebuildAgain(1)
  \/ RebuildRead(1)
  \/ RebuildWrite(1)
  \/ Return(1)

IdemSpec == IdemInit /\ [][IdemNext]_vars

\* C28: when rebuildContactSummaries has run twice in a row for the same ids,
\* the summaries after the second run are those after the first, contacts and
\* interactions are as they were, and the entries of the ids are what
\* buildContactSummary gives on them
RebuildIdempotent ==
  (Done("rebuild") /\ procs[1].res.runs = 2) =>
    /\ summaries = procs[1].ss
    /\ contacts = procs[1].pre.cs
    /\ interactions = procs[1].pre.is
    /\ \A id \in Range(procs[1].ids) :
         LET b == buildContactSummary(id, contacts, interactions)
         IN /\ b # None => \E k \in 1..Len(summaries) : summaries[k] = b[1]
            /\ b = None => id \notin SummaryIdsIn(summaries)

\* C28 witness: the first run changed the summaries it found, replacing an
\* entry and removing one, and the second run has written
RebuildIdempotentWitness ==
  /\ Done("rebuild")
  /\ procs[1].res.runs = 2
  /\ procs[1].pre.ss # <<>>
  /\ procs[1].ss # procs[1].pre.ss
  /\ Len(procs[1].ss) < Len(procs[1].pre.ss)
  /\ \E k \in 1..Len(summaries) : summaries[k].interactionCount > 0
  /\ procs[1].io.ws = 2

\* ---------------------------------------------------------------- making a contact private

\* an update_contact call that set private = true has returned
MadePrivate ==
  /\ Done("update_contact")
  /\ procs[1].res.kind = "updated"
  /\ procs[1].args.updates = [private |-> TRUE]

\* the stored interactions that list the contact and not the other one
ListedWithout(id, other) ==
  {k \in 1..Len(interactions) :
     id \in Range(interactions[k].contactIds) /\ other \notin Range(interactions[k].contactIds)}

\* C29: after update_contact has set private = true on contact A, the summary
\* entry of every other contact counts and dates only interactions in which A
\* does not participate
CoParticipantsBroughtInLine ==
  MadePrivate =>
    LET A == procs[1].res.id
    IN \A k \in 1..Len(summaries) :
         summaries[k].id # A =>
           LET mine == ListedWithout(summaries[k].id, A)
           IN /\ summaries[k].interactionCount <= Cardinality(mine)
              /\ summaries[k].lastInteraction # NoDate =>
                   \E j \in mine : interactions[j].date = summaries[k].lastInteraction
              /\ mine = {} => summaries[k].recentSummary = <<>>

\* ---------------------------------------------------------------- counts and dates

\* the summary text of the k-th stored interaction, one letter each
LetterOf(k) == <<<<"w">>, <<"x">>, <<"y">>, <<"z">>>>[k]

DatedCount == 4

\* four stored interactions of contact 1, alone or with contact 2, on days 1
\* to 3 in any order; the second one flagged private or not
DatedInteractions ==
  {[k \in 1..DatedCount |->
      [id |-> k, contactIds |-> ids[k], date |-> ds[k], summary |-> LetterOf(k),
       topics |-> <<"golf">>, mentionedNextSteps |-> "intro", location |-> NULL,
       private |-> (k = 2 /\ flagged)]] :
     ids \in [1..DatedCount -> {<<1>>, <<1, 2>>}], ds \in [1..DatedCount -> 1..3],
     flagged \in BOOLEAN}

\* the store after add_contact, update_contact and log_interaction calls
DatedInit ==
  /\ \E f \in PrivacyFlags : (\A k \in 3..MaxContacts : ~f[k]) /\ contacts = FlaggedContacts(f)
  /\ interactions \in DatedInteractions
  /\ summaries = SeedSummaries(contacts, interactions)
  /\ config = [privateKey |-> "k1"]
  /\ procs = [p \in Procs |-> IdleProc]
  /\ nextCid = MaxContacts
  /\ nextIid = Len(interactions)
  /\ cycles = <<>>

DatedUpdateArgs ==
  [contactId : {1, 2}, name : {NoText}, updates : {[private |-> FALSE]},
   privateKey : {"k1"}]

\* update_contact calls, each rebuilding the summary of its contact
DatedNext ==
  \/ \E a \in DatedUpdateArgs : UpdateContact(1, a)
  \/ WriteContacts(1)
  \/ RebuildRead(1)
  \/ RebuildWrite(1)
  \/ Return(1)

DatedSpec == DatedInit /\ [][DatedNext]_vars

\* C30: for every public contact the built summary counts exactly the
\* interactions that list it, are not flagged private and have no private
\* participant; lastInteraction and firstInteraction are the greatest and the
\* least of their dates, null exactly when there are none; recentSummary
\* quotes min(3, count) of them, none of which has three newer ones, and is
\* empty when there are none
SummaryCountsAndDates ==
  \A c \in 1..Len(contacts) :
    ~contacts[c].private =>
      LET id == contacts[c].id
          b == buildContactSummary(id, contacts, interactions)
          Q == Qualifying(id, contacts, interactions)
          quoted == {k \in Q : Includes(b[1].recentSummary, interactions[k].summary)}
          newer(k) == {j \in Q : interactions[j].date > interactions[k].date}
      IN /\ b # None
         /\ b[1].interactionCount = Cardinality(Q)
         /\ (b[1].lastInteraction = NoDate) <=> (Q = {})
         /\ (b[1].firstInteraction = NoDate) <=> (Q = {})
         /\ Q # {} =>
              /\ \E k \in Q : interactions[k].date = b[1].lastInteraction
              /\ \E k \in Q : interactions[k].date = b[1].firstInteraction
              /\ \A k \in Q : /\ interactions[k].date <= b[1].lastInteraction
                              /\ interactions[k].date >= b[1].firstInteraction
         /\ (b[1].recentSummary = <<>>) <=> (Q = {})
         /\ Cardinality(quoted) = Min(3, Cardinality(Q))
         /\ \A k \in quoted : Cardinality(newer(k)) < 3
         /\ \A k \in 1..Len(interactions) :
              k \notin Q => ~Includes(b[1].recentSummary, interactions[k].summary)
         /\ (Quiet /\ procs[1].op = "update_contact" /\ procs[1].ids = <<id>>) =>
              \A k \in EntriesOf(summaries, id) : summaries[k] = b[1]

\* C30 witness: a rebuilt entry counts three interactions on different days,
\* fewer than are stored for the contact
SummaryCountsAndDatesWitness ==
  /\ Done("update_contact")
  /\ procs[1].res.kind = "updated"
  /\ \E k \in EntriesOf(summaries, procs[1].res.id) :
       /\ summaries[k].interactionCount = 3
       /\ summaries[k].firstInteraction < summaries[k].lastInteraction
       /\ Cardinality({j \in 1..Len(interactions) :
                         procs[1].res.id \in Range(interactions[j].contactIds)}) = 4

\* ---------------------------------------------------------------- patches

NickJo == <<"J", "o">>

TextTea == <<"t", "e", "a">>

\* contacts as addContact stores them, timestamps and contact info included
PatchContacts ==
  [k \in 1..2 |->
     [id |-> k, name |-> IF k = 1 THEN NameAB ELSE NameCB, nickname |-> NoText,
      contactInfo |-> [email |-> NULL, phone |-> NULL], private |-> FALSE,
      createdAt |-> 1, updatedAt |-> 1]]

\* interactions as logInteraction stores them, createdAt included
PatchInteractions ==
  [k \in 1..2 |->
     [id |-> k, contactIds |-> <<1>>, date |-> 1, summary |-> TextGolf,
      topics |-> <<"golf">>, mentionedNextSteps |-> "intro", location |-> NULL,
      private |-> FALSE, createdAt |-> 1]]

PatchInit ==
  /\ contacts = PatchContacts
  /\ interactions = PatchInteractions
  /\ summaries = SeedSummaries(contacts, interactions)
  /\ config = [privateKey |-> "k1"]
  /\ procs = [p \in Procs |-> IdleProc]
  /\ nextCid = Len(contacts)
  /\ nextIid = Len(interactions)
  /\ cycles = <<>>

\* args.updates of updateContact: keys of the two allow-lists and other keys
ContactPatches ==
  {[nickname |-> NickJo, id |-> 9, createdAt |-> 3, source |-> "x"],
   [email |-> "e", id |-> 9],
   [createdAt |-> 3, contactInfo |-> [email |-> "e"]],
   [private |-> TRUE]}

\* args.updates of editInteraction: allow-listed keys and other keys
InteractionPatches ==
  {[summary |-> TextTea, id |-> 9, createdAt |-> 3],
   [contactIds |-> <<2>>, source |-> "x"],
   [createdAt |-> 3, contactId |-> 2]}

PatchUpdateArgs ==
  [contactId : {1, 2}, name : {NoText}, updates : ContactPatches, privateKey : Keys]
  \cup [contactId : {NoId}, name : {NameCB}, updates : ContactPatches, privateKey : {NoKey}]

PatchEditArgs ==
  [interactionId : {1, 2}, updates : InteractionPatches, privateKey : Keys]

PatchNext ==
  \/ \E a \in PatchUpdateArgs : UpdateContact(1, a)
  \/ \E a \in PatchEditArgs : EditInteraction(1, a)
  \/ WriteContacts(1)
  \/ WriteInteractions(1)
  \/ RebuildRead(1)
  \/ RebuildWrite(1)
  \/ Return(1)

PatchSpec == PatchInit /\ [][PatchNext]_vars

\* the field f of the record after a patch: the patch's value when the patch
\* has the allow-listed key, the value before otherwise
Merged(before, after, updates, allowed, f) ==
  IF f \in allowed /\ f \in DOMAIN updates
  THEN f \in DOMAIN after /\ after[f] = updates[f]
  ELSE (f \in DOMAIN before <=> f \in DOMAIN after)
       /\ (f \in DOMAIN before => after[f] = before[f])

\* every field of the record but updatedAt, and every contact-info field
MergedContact(before, after, updates) ==
  /\ \A f \in (DOMAIN before \cup DOMAIN after \cup DOMAIN updates) \ {"updatedAt", "contactInfo"} :
       Merged(before, after, updates, AllowedTopLevel, f)
  /\ "contactInfo" \in DOMAIN after
  /\ \A g \in DOMAIN before.contactInfo \cup DOMAIN after.contactInfo \cup DOMAIN updates :
       Merged(before.contactInfo, after.contactInfo, updates, AllowedContactInfo, g)

MergedInteraction(before, after, updates) ==
  \A f \in (DOMAIN before \cup DOMAIN after \cup DOMAIN updates) \ {"updatedAt"} :
    Merged(before, after, updates, AllowedFields, f)

\* C31: a completed update_contact or edit_interaction leaves every record
\* but its target as it was, and the target with its id and createdAt, the
\* patch's allow-listed keys applied and every other field as before
PatchAppliesAllowListOnly ==
  /\ (Done("update_contact") /\ procs[1].res.kind = "updated") =>
       LET before == procs[1].pre.cs
           j == ResolveContact(procs[1].args, before)
       IN /\ interactions = procs[1].pre.is
          /\ Len(contacts) = Len(before)
          /\ \A k \in 1..Len(before) : k # j => contacts[k] = before[k]
          /\ contacts[j].id = before[j].id
          /\ contacts[j].createdAt = before[j].createdAt
          /\ MergedContact(before[j], contacts[j], procs[1].args.updates)
  /\ (Done("edit_interaction") /\ procs[1].res.kind = "updated") =>
       LET before == procs[1].pre.is
           k == FindInteraction(before, procs[1].args.interactionId)
       IN /\ contacts = procs[1].pre.cs
          /\ Len(interactions) = Len(before)
          /\ \A n \in 1..Len(before) : n # k => interactions[n] = before[n]
          /\ interactions[k].id = before[k].id
          /\ interactions[k].createdAt = before[k].createdAt
          /\ MergedInteraction(before[k], interactions[k], procs[1].args.updates)

\* C31 witness: a completed update_contact whose patch had an allow-listed
\* key and the keys id and createdAt, after an edit_interaction that changed
\* the summary of the second interaction
PatchAppliesAllowListOnlyWitness ==
  /\ Done("update_contact")
  /\ procs[1].res.kind = "updated"
  /\ {"nickname", "id", "createdAt"} \subseteq DOMAIN procs[1].args.updates
  /\ \E k \in 1..Len(contacts) :
       contacts[k].id = procs[1].res.id /\ contacts[k].nickname = NickJo
  /\ \E k \in 1..Len(interactions) :
       interactions[k].id = 2 /\ interactions[k].summary = TextTea

\* ---------------------------------------------------------------- one entry per id

\* the operations whose only write of summaries is that of their rebuild
RebuildingOps ==
  {"add_contact", "update_contact", "log_interaction", "edit_interaction",
   "delete_interaction"}

\* C32: the summaries collection never has two entries of one contact id, and
\* a completed rebuild that removed no entry left every entry it found at its
\* position, with the new entries after them
OneEntryPerId ==
  /\ \A id \in SummaryIdsIn(summaries) : Cardinality(EntriesOf(summaries, id)) = 1
  /\ (procs[1].pc = "done" /\ procs[1].op \in RebuildingOps /\ procs[1].io.ws = 1
      /\ SummaryIdsIn(procs[1].pre.ss) \subseteq SummaryIdsIn(summaries)) =>
       /\ Len(summaries) >= Len(procs[1].pre.ss)
       /\ \A k \in 1..Len(procs[1].pre.ss) : summaries[k].id = procs[1].pre.ss[k].id

\* C32 witness: a completed log_interaction whose rebuild found the entries
\* of two participants and replaced both, the first one not the last entry
OneEntryPerIdWitness ==
  /\ Done("log_interaction")
  /\ procs[1].res.kind = "logged"
  /\ Len(procs[1].ids) >= 2
  /\ Range(procs[1].ids) \subseteq SummaryIdsIn(procs[1].pre.ss)
  /\ \A id \in Range(procs[1].ids) :
       \E k \in EntriesOf(summaries, id) :
          k < Len(summaries) /\ summaries[k] # procs[1].pre.ss[k]

\* ---------------------------------------------------------------- locked callers

\* the call that has returned was made without the configured key
LockedCallDone ==
  /\ procs[1].pc = "done"
  /\ "privateKey" \in DOMAIN procs[1].args
  /\ ~isUnlocked(procs[1].args.privateKey, config)

\* C33: after a call of a locked caller every contact that was private, and
\* every interaction that was flagged private or had a private participant,
\* is stored as it was before the call
LockedCallsLeaveHiddenRecords ==
  LockedCallDone =>
    /\ \A k \in 1..Len(procs[1].pre.cs) :
         isContactPrivate(procs[1].pre.cs[k]) =>
           \E j \in 1..Len(contacts) : contacts[j] = procs[1].pre.cs[k]
    /\ \A k \in 1..Len(procs[1].pre.is) :
         isInteractionPrivate(procs[1].pre.is[k], procs[1].pre.cs) =>
           \E j \in 1..Len(interactions) : interactions[j] = procs[1].pre.is[k]

\* ---------------------------------------------------------------- duplicate warnings

\* the stored interaction of that id is flagged private or has a private participant
HiddenIn(is, cs, id) ==
  \E k \in 1..Len(is) : is[k].id = id /\ isInteractionPrivate(is[k], cs)

\* C34: the warning of add_contact, which never reads the key, lists no private
\* contact, and the warning of a log_interaction made without the configured
\* key lists no interaction that is flagged private or has a private participant
WarningsDiscloseNothingPrivate ==
  /\ (Done("add_contact") /\ procs[1].res.kind = "warning") =>
       \A k \in 1..Len(procs[1].res.existingContacts) :
         ~PrivateContactId(procs[1].pre.cs, procs[1].res.existingContacts[k])
  /\ (Done("log_interaction") /\ procs[1].res.kind = "warning"
      /\ ~isUnlocked(procs[1].args.privateKey, config)) =>
       \A k \in 1..Len(procs[1].res.similarInteractions) :
         ~HiddenIn(procs[1].pre.is, procs[1].pre.cs, procs[1].res.similarInteractions[k])

\* ---------------------------------------------------------------- lookup by name

\* args.name / args.contactName: matching every contact, one kind of contact, none
LookupNames == {<<"b">>, NameCB, NameZZ}

LookupGetArgs == [contactId : {NoId}, name : LookupNames, privateKey : ProvidedKeys]

LookupUpdateArgs ==
  [contactId : {NoId}, name : LookupNames, updates : {[private |-> TRUE]},
   privateKey : ProvidedKeys]

LookupDeleteArgs ==
  [contactId : {NoId}, name : LookupNames, deleteInteractions : BOOLEAN,
   privateKey : ProvidedKeys]

LookupLogArgs ==
  [contactIds : {<<>>}, contactNames : {<<>>}, contactId : {NoId},
   contactName : LookupNames,
   date : {1}, summary : {TextGolf}, topics : {<<"golf">>},
   mentionedNextSteps : {"intro"}, location : {NULL},
   forceCreate : BOOLEAN, private : {FALSE}, privateKey : ProvidedKeys]

\* the calls that resolve a contact from a name, one at a time, on the store
\* of LogInit
LookupNext ==
  \/ \E a \in LookupGetArgs : GetContact(1, a)
  \/ \E a \in LookupUpdateArgs : UpdateContact(1, a)
  \/ \E a \in LookupDeleteArgs : DeleteContact(1, a)
  \/ \E a \in LookupLogArgs : LogInteraction(1, a)
  \/ WriteContacts(1)
  \/ WriteInteractions(1)
  \/ RebuildRead(1)
  \/ RebuildWrite(1)
  \/ FinalWriteContacts(1)
  \/ FinalWriteSummaries(1)
  \/ Return(1)

LookupSpec == LogInit /\ [][LookupNext]_vars

\* what the name matches in the store the call read, private contacts taken out
PublicMatches(name) ==
  findContactByName(name, filterPrivateContacts(procs[1].pre.cs, FALSE))

\* C35: a call of a locked caller that resolves a contact from a name returns
\* what it returns on the store without its private contacts: the first public
\* contact the name matches, and not found only when it matches no public one
NameLookupIgnoresPrivate ==
  /\ \A op \in {"get_contact", "update_contact", "delete_contact"} :
       (Done(op) /\ ~isUnlocked(procs[1].args.privateKey, config)
        /\ procs[1].args.contactId = NoId /\ procs[1].args.name # NoText) =>
         LET m == PublicMatches(procs[1].args.name)
         IN IF m = <<>> THEN procs[1].res = NotFound
            ELSE procs[1].res.kind # "error" /\ procs[1].res.id = m[1].id
  /\ (Done("log_interaction") /\ ~isUnlocked(procs[1].args.privateKey, config)
      /\ procs[1].args.contactIds = <<>> /\ procs[1].args.contactNames = <<>>
      /\ procs[1].args.contactId = NoId /\ procs[1].args.contactName # NoText) =>
       LET m == PublicMatches(procs[1].args.contactName)
       IN IF m = <<>> THEN procs[1].res = NotFound
          ELSE /\ procs[1].res.kind # "error"
               /\ procs[1].res.kind = "logged" =>
                    \E k \in 1..Len(interactions) :
                       /\ interactions[k].id = procs[1].res.id
                       /\ interactions[k].contactIds = <<m[1].id>>

\* ---------------------------------------------------------------- participations of private contacts

\* the ids of the interactions of is that list the contact
ParticipationsOf(is, id) == {is[k].id : k \in {n \in 1..Len(is) : id \in Range(is[n].contactIds)}}

\* C36: an edit_interaction of a locked caller whose contactIds patch names a
\* private contact returns an error and writes nothing, and after any call of a
\* locked caller no private contact is listed by an interaction that did not
\* list it before
LockedEditRejectsPrivate ==
  /\ (Done("edit_interaction") /\ LockedCallDone
      /\ "contactIds" \in DOMAIN procs[1].args.updates
      /\ \E id \in Range(procs[1].args.updates.contactIds) :
           PrivateContactId(procs[1].pre.cs, id)) =>
       /\ procs[1].res.kind = "error"
       /\ NoWrites(procs[1].io)
       /\ interactions = procs[1].pre.is
  /\ LockedCallDone =>
       \A k \in 1..Len(procs[1].pre.cs) :
         isContactPrivate(procs[1].pre.cs[k]) =>
           ParticipationsOf(interactions, procs[1].pre.cs[k].id)
             \subseteq ParticipationsOf(procs[1].pre.is, procs[1].pre.cs[k].id)

\* ---------------------------------------------------------------- concurrent writers of one collection

\* the store after one add_contact call
AckInit ==
  /\ contacts = SubSeq(SeedContacts, 1, 1)
  /\ interactions = <<>>
  /\ summaries = SeedSummaries(contacts, interactions)
  /\ config = [privateKey |-> ""]
  /\ procs = [p \in Procs |-> IdleProc]
  /\ nextCid = 1
  /\ nextIid = 0
  /\ cycles = <<>>

AckAddArgs ==
  [name : {NameCB}, nickname : {NoText}, private : {FALSE}, forceDuplicate : {TRUE}]

AckLogArgs ==
  [contactIds : {<<1>>}, contactNames : {<<>>}, contactId : {NoId}, contactName : {NoText},
   date : {1}, summary : {TextGolf}, topics : {<<"golf">>},
   mentionedNextSteps : {"intro"}, location : {NULL},
   forceCreate : {TRUE}, private : {FALSE}, privateKey : {NoKey}]

\* two callers adding contacts and logging interactions; the steps of their
\* handlers interleave at the awaits
AckNext ==
  \E p \in Procs :
    \/ \E a \in AckAddArgs : AddContact(p, a)
    \/ \E a \in AckLogArgs : LogInteraction(p, a)
    \/ WriteContacts(p)
    \/ WriteInteractions(p)
    \/ RebuildRead(p)
    \/ RebuildWrite(p)
    \/ Return(p)

AckSpec == AckInit /\ [][AckNext]_vars

\* both callers have completed a call of that operation with that result
BothReturned(op, kind) ==
  \A p \in Procs : procs[p].pc = "done" /\ procs[p].op = op /\ procs[p].res.kind = kind

\* C37: when two log_interaction calls, or two add_contact calls, have both
\* returned success, the records of both are in the collection
AcknowledgedRecordsKept ==
  /\ BothReturned("log_interaction", "logged") =>
       \A p \in Procs : procs[p].res.id \in StoredIds(interactions)
  /\ BothReturned("add_contact", "created") =>
       \A p \in Procs : procs[p].res.id \in ContactIdsIn(contacts)

\* ---------------------------------------------------------------- deleting a participant

DanglingLogArgs ==
  [contactIds : {<<1>>, <<1, 2>>}, contactNames : {<<>>}, contactId : {NoId},
   contactName : {NoText},
   date : {1}, summary : {TextGolf}, topics : {<<"golf">>},
   mentionedNextSteps : {"intro"}, location : {NULL},
   forceCreate : {TRUE}, private : {FALSE}, privateKey : {NoKey}]

DanglingDeleteArgs ==
  [contactId : {1}, name : {NoText}, deleteInteractions : BOOLEAN, privateKey : {NoKey}]

\* two callers on the store of StaleInit, one logging interactions of contact 1
\* and one deleting contact 1; their steps interleave at the awaits
DanglingNext ==
  \/ \E a \in DanglingLogArgs : LogInteraction(1, a)
  \/ \E a \in DanglingDeleteArgs : DeleteContact(2, a)
  \/ \E p \in Procs :
       \/ WriteInteractions(p)
       \/ RebuildRead(p)
       \/ RebuildWrite(p)
       \/ FinalWriteContacts(p)
       \/ FinalWriteSummaries(p)
       \/ Return(p)

DanglingSpec == StaleInit /\ [][DanglingNext]_vars

\* C38: when a log_interaction naming a contact and a delete_contact of that
\* contact have both completed, the one logged and the other deleted, every
\* stored interaction lists contacts of the contacts collection only
DeleteAndLogLeaveNoDanglingId ==
  (/\ Done("log_interaction") /\ procs[1].res.kind = "logged"
   /\ procs[2].pc = "done" /\ procs[2].op = "delete_contact"
   /\ procs[2].res.kind = "deleted"
   /\ procs[2].res.id \in Range(procs[1].ids)) =>
    \A k \in 1..Len(interactions) :
      Range(interactions[k].contactIds) \subseteq ContactIdsIn(contacts)

\* ---------------------------------------------------------------- a rebuild racing with private = true

HideArgs ==
  [contactId : {1}, name : {NoText}, updates : {[private |-> TRUE]}, privateKey : {NoKey}]

HideEditArgs ==
  [interactionId : {GroupAB.id}, updates : {[summary |-> TextGolf]}, privateKey : {NoKey}]

HideDeleteInteractionArgs == [interactionId : {GroupAB.id}, privateKey : {NoKey}]

\* two callers on the store of StaleInit, one making contact 1 private and one
\* logging, editing or deleting an interaction of contact 1; their steps
\* interleave at the awaits
HideNext ==
  \/ \E a \in HideArgs : UpdateContact(1, a)
  \/ \E a \in DanglingLogArgs : LogInteraction(2, a)
  \/ \E a \in HideEditArgs : EditInteraction(2, a)
  \/ \E a \in HideDeleteInteractionArgs : DeleteInteraction(2, a)
  \/ \E p \in Procs :
       \/ WriteContacts(p)
       \/ WriteInteractions(p)
       \/ RebuildRead(p)
       \/ RebuildWrite(p)
       \/ Return(p)

HideSpec == StaleInit /\ [][HideNext]_vars

\* C39: when an update_contact that set private = true on a contact and a
\* log_interaction, edit_interaction or delete_interaction whose rebuild covers
\* that contact have both completed, the summaries hold no entry of the contact
PrivateHasNoEntryAfterRace ==
  (/\ Done("update_contact") /\ procs[1].res.kind = "updated"
   /\ procs[1].args.updates.private = TRUE
   /\ procs[2].pc = "done"
   /\ procs[2].op \in {"log_interaction", "edit_interaction", "delete_interaction"}
   /\ procs[2].res.kind \notin {"error", "warning"}
   /\ procs[1].res.id \in Range(procs[2].ids)) =>
    procs[1].res.id \notin SummaryIdsIn(summaries)

====
